---- MODULE Spec2Model ----
(***************************************************************************)
(* A model of ptolemy: the generator's junction classifier, node store,    *)
(* arc extraction and graph surgery, the artifact serializer and reader,   *)
(* and the cartograph's hash-prefix sampler and shortest-path searches.    *)
(* Each component has its own specification; the variables of the other    *)
(* components stay at their idle values.                                   *)
(***************************************************************************)
EXTENDS Integers, Sequences, FiniteSets, TLC

VARIABLES
    jb,        \* JunctionsBuilder: [junctions, internals, ways_len]
    jbCalls,   \* history: per node offset, the push_junction / push_internal calls made
    cells,     \* atomic classifier: one byte per four nodes
    workers,   \* atomic classifier: each worker's position in its CAS loop
    atCalls,   \* history: per node offset, the mark_junction / mark_internal calls started
    nb,        \* NodesBuilder
    nodes,     \* Nodes built by from_builders, or NoNodes
    pushed,    \* history: the OSMNodes pushed, in order
    graph,     \* Graph: [nodes, edges, node_indexes]
    arcs,      \* history: the set of arcs given to push_arc
    built,     \* history: the graph as the surgery found it
    stage,     \* position of generate() in the graph pipeline
    file,      \* the artifact written by serialize, a sequence of bytes
    carto,     \* the graph read back by Cartograph::open, or NoCarto
    smK,       \* max_num of the running sample / sample_with_priority
    stream,    \* history: the items the iterator has yielded so far
    plain,     \* the Sampler of sample()
    strata,    \* samplers of sample_with_priority(): priority -> Sampler
    minPrio,   \* min_priority of sample_with_priority()
    smPhase,   \* "feeding", "done" or "hang"
    smResult,  \* result of sample()
    smByPrio,  \* result of sample_with_priority(): priority -> items
    roads,     \* the graph of a Cartograph answering queries: [nodes, edges]
    cand,      \* how many of the file's edges Cartograph::open has looked at
    query,     \* the projected points of a query: [from, to]
    singles,   \* what shortest_path returned for each target so far
    multi,     \* what shortest_path_multi returned
    rtPhase,   \* "load", "query", "single", "multi" or "done"
    parts,     \* per-worker JunctionsBuilders: worker -> builder
    whole,     \* one JunctionsBuilder that gets the calls of all workers
    acc,       \* the builder the workers' builders are merged into
    pending,   \* the workers whose builder is not merged yet
    nbs,       \* the NodesBuilders of the workers: worker -> NodesBuilder
    fed,       \* history: the nodes pushed into any builder, in order
    cur,       \* the builder in the middle of a block, or 0
    listed,    \* the order of the builders in the list given to from_builders
    assembled, \* Nodes built from all the builders, or NoNodes
    osmWay,    \* an OSM way: [refs, highway, junction, oneway], a tag being <<>> or <<value>>
    store,     \* what the node store and the classifier say: [junctions, barriers]
    wayArcs,   \* the arcs parse_ways pushed for the way
    wyPhase,   \* "read" or "parsed"
    disk,      \* the bytes of the file Cartograph::open is given
    opened,    \* what Cartograph::open returned
    rdPhase,   \* "closed", "opened" or "panic"
    profile,   \* the build: "debug" (overflow checks on) or "release" (off)
    score,     \* the u32 cost of the path the search follows, as [hi, lo] 16-bit halves
    exact,     \* history: the exact sum of what was added, [hi, lo] with hi unbounded
    hops,      \* the number of edges relaxed along the path
    coPhase,   \* "search", "done" or "panic"
    series,    \* the i32 values of a column
    builds,    \* the build profiles: [generator, cartograph], each "debug" or "release"
    encoded,   \* the column compress wrote, length first
    decoded,   \* what decompress returned
    dlPhase,   \* "plain", "encoded", "decoded" or "panic"
    waysBlobs, \* file.ways_blobs, each as the arcs parse_ways returns for it
    taskQ,     \* the task channel: indexes of the blobs not yet taken
    held,      \* per worker thread, the blob it parsed and has not sent yet (0: none)
    resultQ,   \* the result channel: blobs in the order they were sent
    pgraph,    \* the graph the consuming thread builds
    plPhase,   \* "run", "done", or "idle"
    orderA,    \* the arcs of the input, in the order one run pushes them
    orderB,    \* the same arcs in the order another run pushes them
    runA,      \* the graph of the first run
    runB,      \* the graph of the second run
    tablesA,   \* the file the first run writes
    tablesB,   \* the file the second run writes
    odStage,   \* the step both runs have reached, or "idle"
    ob,        \* the NodesBuilder of generator/data_types/node.rs
    oldNodes,  \* the Nodes it builds (<<>> before build)
    osmFile,   \* OSMFile: the blobs of the file in file order
    classified, \* OSMClassifiedFile, or the panic of from_file
    clPhase,   \* classifier: "mapped" or "classified"
    scBlobs,   \* node scan: the blobs handed to parse_blobs, in file order
    scThreads, \* node scan: num_threads
    scTaken,   \* node scan: how many tasks left the task channel
    scWorkers, \* node scan: each worker thread, its position and its task
    scStop,    \* node scan: the stop_after cell
    scResults, \* node scan: the result channel
    scMain,    \* node scan: builder, other_blobs, out_of_order and next_seq of the consuming thread
    scPhase,   \* node scan: "running" or "done"
    nfFile,    \* the classified file: node blobs and ways blobs
    nfJunctions, \* Junctions built by the junction pass
    nfQueue,   \* node blobs still in the task channel
    nfWorkers, \* per worker: its local NodesBuilder and what it does
    nfNodes,   \* Nodes built from the workers builders
    nfPhase    \* position of the pipeline

jbVars == <<jb, jbCalls>>
atVars == <<cells, workers, atCalls>>
ndVars == <<nb, nodes, pushed>>
grVars == <<graph, arcs, built, stage, file, carto>>
smVars == <<smK, stream, plain, strata, minPrio, smPhase, smResult, smByPrio>>
rtVars == <<roads, cand, query, singles, multi, rtPhase>>
mgVars == <<parts, whole, acc, pending>>
mnVars == <<nbs, fed, cur, listed, assembled>>
wyVars == <<osmWay, store, wayArcs, wyPhase>>
rdVars == <<disk, opened, rdPhase>>
coVars == <<profile, score, exact, hops, coPhase>>
dlVars == <<series, builds, encoded, decoded, dlPhase>>
plVars == <<waysBlobs, taskQ, held, resultQ, pgraph, plPhase>>
odVars == <<orderA, orderB, runA, runB, tablesA, tablesB, odStage>>
lkVars == <<ob, oldNodes>>
clVars == <<osmFile, classified, clPhase>>
scVars == <<scBlobs, scThreads, scTaken, scWorkers, scStop, scResults, scMain, scPhase>>
nfVars == <<nfFile, nfJunctions, nfQueue, nfWorkers, nfNodes, nfPhase>>
vars == <<jbVars, atVars, ndVars, grVars, smVars, rtVars, mgVars, mnVars, wyVars, rdVars, coVars, dlVars, plVars, odVars, lkVars, clVars, scVars, nfVars>>

\* What a step of one component leaves alone
JBOnly == UNCHANGED <<atVars, ndVars, grVars, smVars, rtVars, mgVars, mnVars, wyVars, rdVars, coVars, dlVars, plVars, odVars, lkVars, clVars, scVars, nfVars>>

ATOnly == UNCHANGED <<jbVars, ndVars, grVars, smVars, rtVars, mgVars, mnVars, wyVars, rdVars, coVars, dlVars, plVars, odVars, lkVars, clVars, scVars, nfVars>>

NDOnly == UNCHANGED <<jbVars, atVars, grVars, smVars, rtVars, mgVars, mnVars, wyVars, rdVars, coVars, dlVars, plVars, odVars, lkVars, clVars, scVars, nfVars>>

GROnly == UNCHANGED <<jbVars, atVars, ndVars, smVars, rtVars, mgVars, mnVars, wyVars, rdVars, coVars, dlVars, plVars, odVars, lkVars, clVars, scVars, nfVars>>

SMOnly == UNCHANGED <<jbVars, atVars, ndVars, grVars, rtVars, mgVars, mnVars, wyVars, rdVars, coVars, dlVars, plVars, odVars, lkVars, clVars, scVars, nfVars>>

RTOnly == UNCHANGED <<jbVars, atVars, ndVars, grVars, smVars, mgVars, mnVars, wyVars, rdVars, coVars, dlVars, plVars, odVars, lkVars, clVars, scVars, nfVars>>

MGOnly == UNCHANGED <<jbVars, atVars, ndVars, grVars, smVars, rtVars, mnVars, wyVars, rdVars, coVars, dlVars, plVars, odVars, lkVars, clVars, scVars, nfVars>>

MNOnly == UNCHANGED <<jbVars, atVars, ndVars, grVars, smVars, rtVars, mgVars, wyVars, rdVars, coVars, dlVars, plVars, odVars, lkVars, clVars, scVars, nfVars>>

WYOnly == UNCHANGED <<jbVars, atVars, ndVars, grVars, smVars, rtVars, mgVars, mnVars, rdVars, coVars, dlVars, plVars, odVars, lkVars, clVars, scVars, nfVars>>

RDOnly == UNCHANGED <<jbVars, atVars, ndVars, grVars, smVars, rtVars, mgVars, mnVars, wyVars, coVars, dlVars, plVars, odVars, lkVars, clVars, scVars, nfVars>>

COOnly == UNCHANGED <<jbVars, atVars, ndVars, grVars, smVars, rtVars, mgVars, mnVars, wyVars, rdVars, dlVars, plVars, odVars, lkVars, clVars, scVars, nfVars>>

DLOnly == UNCHANGED <<jbVars, atVars, ndVars, grVars, smVars, rtVars, mgVars, mnVars, wyVars, rdVars, coVars, plVars, odVars, lkVars, clVars, scVars, nfVars>>

PLOnly == UNCHANGED <<jbVars, atVars, ndVars, grVars, smVars, rtVars, mgVars, mnVars, wyVars, rdVars, coVars, dlVars, odVars, lkVars, clVars, scVars, nfVars>>

ODOnly == UNCHANGED <<jbVars, atVars, ndVars, grVars, smVars, rtVars, mgVars, mnVars, wyVars, rdVars, coVars, dlVars, plVars, lkVars, clVars, scVars, nfVars>>

LKOnly == UNCHANGED <<jbVars, atVars, ndVars, grVars, smVars, rtVars, mgVars, mnVars, wyVars, rdVars, coVars, dlVars, plVars, odVars, clVars, scVars, nfVars>>

CLOnly == UNCHANGED <<jbVars, atVars, ndVars, grVars, smVars, rtVars, mgVars, mnVars, wyVars, rdVars, coVars, dlVars, plVars, odVars, lkVars, scVars, nfVars>>

SCOnly == UNCHANGED <<jbVars, atVars, ndVars, grVars, smVars, rtVars, mgVars, mnVars, wyVars, rdVars, coVars, dlVars, plVars, odVars, lkVars, clVars, nfVars>>

NFOnly == UNCHANGED <<jbVars, atVars, ndVars, grVars, smVars, rtVars, mgVars, mnVars, wyVars, rdVars, coVars, dlVars, plVars, odVars, lkVars, clVars, scVars>>

(***************************************************************************)
(* Generic helpers                                                         *)
(***************************************************************************)
Pow2(n) == 2 ^ n

Min(a, b) == IF a <= b THEN a ELSE b

Max(a, b) == IF a >= b THEN a ELSE b

Range(s) == {s[i] : i \in 1..Len(s)}

RECURSIVE SumSeq(_)
SumSeq(s) == IF s = <<>> THEN 0 ELSE Head(s) + SumSeq(Tail(s))

RECURSIVE ConcatRange(_, _, _)
\* the concatenation of the sequences f[from], .., f[to]
ConcatRange(f, from, to) == IF from > to THEN <<>> ELSE f[from] \o ConcatRange(f, from + 1, to)

(***************************************************************************)
(* DiskBitVec: a bitmap over bytes, bit `offset & 7` of byte `offset >> 3` *)
(***************************************************************************)
\* number of node offsets of the junction builder's Nodes
NumNodes == 9

\* bound on the number of push_* calls made on one builder
MaxCalls == 4

BitOf(byte, k) == (byte \div Pow2(k)) % 2

zeros(len) ==
    LET bytes == IF len % 8 = 0 THEN len \div 8 ELSE len \div 8 + 1
    IN [i \in 1..bytes |-> 0]

get_bit(bitmap, offset) == BitOf(bitmap[(offset \div 8) + 1], offset % 8) # 0

set_bit_wrong_mask(bitmap, offset, value) ==
    LET i == (offset \div 8) + 1
        k == offset % 4
        byte == bitmap[i]
    IN IF value
       THEN [bitmap EXCEPT ![i] = IF BitOf(byte, k) = 1 THEN byte ELSE byte + Pow2(k)]
       ELSE [bitmap EXCEPT ![i] = IF BitOf(byte, k) = 1 THEN byte - Pow2(k) ELSE byte]

set_bit(bitmap, offset, value) ==
    LET i == (offset \div 8) + 1
        k == offset % 8
        byte == bitmap[i]
    IN IF value
       THEN [bitmap EXCEPT ![i] = IF BitOf(byte, k) = 1 THEN byte ELSE byte + Pow2(k)]
       ELSE [bitmap EXCEPT ![i] = IF BitOf(byte, k) = 1 THEN byte - Pow2(k) ELSE byte]

(***************************************************************************)
(* JunctionsBuilder (generator/data_types/junction.rs)                     *)
(***************************************************************************)
Offsets == 0..(NumNodes - 1)

JBNew == [junctions |-> zeros(NumNodes), internals |-> zeros(NumNodes), ways_len |-> 0]

push_junction(b, offset) ==
    IF ~get_bit(b.junctions, offset)
    THEN [b EXCEPT !.junctions = set_bit(b.junctions, offset, TRUE),
                   !.internals = set_bit(b.internals, offset, FALSE)]
    ELSE b

push_internal_no_promote(b, offset) ==
    IF ~get_bit(b.junctions, offset)
    THEN [b EXCEPT !.internals = set_bit(b.internals, offset, TRUE)]
    ELSE b

push_internal(b, offset) ==
    IF ~get_bit(b.junctions, offset)
    THEN IF ~get_bit(b.internals, offset)
         THEN [b EXCEPT !.internals = set_bit(b.internals, offset, TRUE)]
         ELSE [b EXCEPT !.junctions = set_bit(b.junctions, offset, TRUE),
                        !.internals = set_bit(b.internals, offset, FALSE)]
    ELSE b

\* The state of a node as the two bitmaps of a builder encode it
JBState(b, offset) ==
    IF get_bit(b.junctions, offset) THEN "Junction"
    ELSE IF get_bit(b.internals, offset) THEN "Internal"
    ELSE "Unused"

JBTotalCalls == SumSeq([i \in 1..NumNodes |-> jbCalls[i - 1].j + jbCalls[i - 1].i])

JBInit ==
    /\ jb = JBNew
    /\ jbCalls = [n \in Offsets |-> [j |-> 0, i |-> 0]]
    /\ cells = <<>> /\ workers = <<>> /\ atCalls = <<>>
    /\ nb = <<>> /\ nodes = <<>> /\ pushed = <<>>
    /\ graph = <<>> /\ arcs = {} /\ built = <<>> /\ stage = "idle" /\ file = <<>> /\ carto = <<>>
    /\ smK = 0 /\ stream = <<>> /\ plain = <<>> /\ strata = <<>> /\ minPrio = 0
    /\ smPhase = "idle" /\ smResult = <<>> /\ smByPrio = <<>>
    /\ roads = <<>> /\ cand = 0 /\ query = <<>> /\ singles = <<>> /\ multi = <<>>
    /\ rtPhase = "idle"
    /\ parts = <<>> /\ whole = <<>> /\ acc = <<>> /\ pending = {}
    /\ nbs = <<>> /\ fed = <<>> /\ cur = 0 /\ listed = <<>> /\ assembled = <<>>
    /\ osmWay = <<>> /\ store = <<>> /\ wayArcs = <<>> /\ wyPhase = "idle"
    /\ disk = <<>> /\ opened = <<>> /\ rdPhase = "idle"
    /\ profile = "none" /\ score = <<>> /\ exact = <<>> /\ hops = 0 /\ coPhase = "idle"
    /\ series = <<>> /\ builds = <<>> /\ encoded = <<>> /\ decoded = <<>> /\ dlPhase = "idle"
    /\ waysBlobs = <<>> /\ taskQ = <<>> /\ held = <<>> /\ resultQ = <<>> /\ pgraph = <<>>
    /\ plPhase = "idle"
    /\ orderA = <<>> /\ orderB = <<>> /\ runA = <<>> /\ runB = <<>>
    /\ tablesA = <<>> /\ tablesB = <<>> /\ odStage = "idle"
    /\ ob = <<>> /\ oldNodes = <<>>
    /\ osmFile = <<>> /\ classified = <<>> /\ clPhase = "idle"
    /\ scBlobs = <<>> /\ scThreads = 0 /\ scTaken = 0 /\ scWorkers = <<>> /\ scStop = 0
    /\ scResults = <<>> /\ scMain = <<>> /\ scPhase = "idle"
    /\ nfFile = <<>> /\ nfJunctions = <<>> /\ nfQueue = <<>> /\ nfWorkers = <<>>
    /\ nfNodes = <<>> /\ nfPhase = "idle"

JBPushJunction ==
    \E n \in Offsets :
        /\ JBTotalCalls < MaxCalls
        /\ jb' = push_junction(jb, n)
        /\ jbCalls' = [jbCalls EXCEPT ![n].j = @ + 1]
        /\ JBOnly

JBPushInternal ==
    \E n \in Offsets :
        /\ JBTotalCalls < MaxCalls
        /\ jb' = push_internal(jb, n)
        /\ jbCalls' = [jbCalls EXCEPT ![n].i = @ + 1]
        /\ JBOnly

JBNext == JBPushJunction \/ JBPushInternal

SpecJB == JBInit /\ [][JBNext]_vars

\* the state the spec assigns to a node that got j mark_junction and i mark_internal calls
JBExpected(c) ==
    IF c.j >= 1 \/ c.i >= 2 THEN "Junction"
    ELSE IF c.i = 1 THEN "Internal"
    ELSE "Unused"

\* C1: after any sequence of push_junction / push_internal calls on one builder, the
\* state of every node is decided by the calls made for that node alone: Junction
\* after one push_junction or two push_internal, Internal after exactly one
\* push_internal and no push_junction, Unused otherwise.
C1_StateFromOwnCalls ==
    \A n \in Offsets : JBState(jb, n) = JBExpected(jbCalls[n])

\* a node promoted by two push_internal, next to an Internal node of the same byte,
\* and a Junction node in the second byte of the bitmaps
C1_Witness ==
    \E n, m \in Offsets :
        /\ n # m /\ n \div 8 = m \div 8
        /\ jbCalls[n] = [j |-> 0, i |-> 2] /\ JBState(jb, n) = "Junction"
        /\ jbCalls[m] = [j |-> 0, i |-> 1] /\ JBState(jb, m) = "Internal"
        /\ jbCalls[8].j = 1 /\ JBState(jb, 8) = "Junction"

(***************************************************************************)
(* Junctions, the shared classifier of generator/parser/junction.rs: one   *)
(* atomic byte per four nodes, a 2-bit slot per node, updated by workers   *)
(* in compare-and-swap loops (spec.md 4.3).                                *)
(***************************************************************************)
\* number of node offsets of the shared classifier
AtNodes == 5

\* number of worker threads of parse_blobs_parallel
NumWorkers == 2

\* bound on the number of mark_* calls the workers make in total
MaxMarks == 2

AtOffsets == 0..(AtNodes - 1)

Workers == 1..NumWorkers

Unused == 0

Internal == 1

Junction == 2

JunctionsNew(len) == [i \in 1..((len + 3) \div 4) |-> 0]

CellOf(offset) == (offset \div 4) + 1

SlotOf(byte, offset) == (byte \div Pow2(2 * (offset % 4))) % 4

WithSlot(byte, offset, v) ==
    byte - SlotOf(byte, offset) * Pow2(2 * (offset % 4)) + v * Pow2(2 * (offset % 4))

\* the slot value a mark writes over the value it read
mark_junction(slot) == Junction

mark_internal(slot) ==
    IF slot = Unused THEN Internal
    ELSE IF slot = Internal THEN Junction
    ELSE slot

Marked(kind, slot) == IF kind = "junction" THEN mark_junction(slot) ELSE mark_internal(slot)

\* a store that ignores the byte the worker read: the cell is overwritten
StoreByte(cs, i, old, new) == [ok |-> TRUE, cells |-> [cs EXCEPT ![i] = new]]

\* compare-and-swap on one cell: writes `new` only if the cell still holds `old`
CasByte(cs, i, old, new) ==
    IF cs[i] = old
    THEN [ok |-> TRUE, cells |-> [cs EXCEPT ![i] = new]]
    ELSE [ok |-> FALSE, cells |-> cs]

IdleWorker == [pc |-> "idle", kind |-> "none", offset |-> 0, old |-> 0, retried |-> FALSE]

AtTotalCalls == SumSeq([i \in 1..AtNodes |-> atCalls[i - 1].j + atCalls[i - 1].i])

ATInit ==
    /\ cells = JunctionsNew(AtNodes)
    /\ workers = [w \in Workers |-> IdleWorker]
    /\ atCalls = [n \in AtOffsets |-> [j |-> 0, i |-> 0]]
    /\ jb = <<>> /\ jbCalls = <<>>
    /\ nb = <<>> /\ nodes = <<>> /\ pushed = <<>>
    /\ graph = <<>> /\ arcs = {} /\ built = <<>> /\ stage = "idle" /\ file = <<>> /\ carto = <<>>
    /\ smK = 0 /\ stream = <<>> /\ plain = <<>> /\ strata = <<>> /\ minPrio = 0
    /\ smPhase = "idle" /\ smResult = <<>> /\ smByPrio = <<>>
    /\ roads = <<>> /\ cand = 0 /\ query = <<>> /\ singles = <<>> /\ multi = <<>>
    /\ rtPhase = "idle"
    /\ parts = <<>> /\ whole = <<>> /\ acc = <<>> /\ pending = {}
    /\ nbs = <<>> /\ fed = <<>> /\ cur = 0 /\ listed = <<>> /\ assembled = <<>>
    /\ osmWay = <<>> /\ store = <<>> /\ wayArcs = <<>> /\ wyPhase = "idle"
    /\ disk = <<>> /\ opened = <<>> /\ rdPhase = "idle"
    /\ profile = "none" /\ score = <<>> /\ exact = <<>> /\ hops = 0 /\ coPhase = "idle"
    /\ series = <<>> /\ builds = <<>> /\ encoded = <<>> /\ decoded = <<>> /\ dlPhase = "idle"
    /\ waysBlobs = <<>> /\ taskQ = <<>> /\ held = <<>> /\ resultQ = <<>> /\ pgraph = <<>>
    /\ plPhase = "idle"
    /\ orderA = <<>> /\ orderB = <<>> /\ runA = <<>> /\ runB = <<>>
    /\ tablesA = <<>> /\ tablesB = <<>> /\ odStage = "idle"
    /\ ob = <<>> /\ oldNodes = <<>>
    /\ osmFile = <<>> /\ classified = <<>> /\ clPhase = "idle"
    /\ scBlobs = <<>> /\ scThreads = 0 /\ scTaken = 0 /\ scWorkers = <<>> /\ scStop = 0
    /\ scResults = <<>> /\ scMain = <<>> /\ scPhase = "idle"
    /\ nfFile = <<>> /\ nfJunctions = <<>> /\ nfQueue = <<>> /\ nfWorkers = <<>>
    /\ nfNodes = <<>> /\ nfPhase = "idle"

\* a worker enters mark_junction / mark_internal and loads the byte
ATBegin ==
    \E w \in Workers, n \in AtOffsets, kind \in {"junction", "internal"} :
        /\ workers[w].pc = "idle"
        /\ AtTotalCalls < MaxMarks
        /\ workers' = [workers EXCEPT ![w] =
               [pc |-> "cas", kind |-> kind, offset |-> n, old |-> cells[CellOf(n)],
                retried |-> FALSE]]
        /\ atCalls' = [atCalls EXCEPT ![n] =
               IF kind = "junction" THEN [@ EXCEPT !.j = @ + 1] ELSE [@ EXCEPT !.i = @ + 1]]
        /\ UNCHANGED cells
        /\ ATOnly

\* one turn of the loop: compare-and-swap, retrying with the value found on failure
ATCas ==
    \E w \in Workers :
        /\ workers[w].pc = "cas"
        /\ LET me == workers[w]
               i == CellOf(me.offset)
               new == WithSlot(me.old, me.offset, Marked(me.kind, SlotOf(me.old, me.offset)))
               r == CasByte(cells, i, me.old, new)
           IN /\ cells' = r.cells
              /\ workers' = [workers EXCEPT ![w] =
                     IF r.ok THEN [me EXCEPT !.pc = "idle"]
                     ELSE [me EXCEPT !.old = cells[i], !.retried = TRUE]]
        /\ UNCHANGED atCalls
        /\ ATOnly

ATNext == ATBegin \/ ATCas

SpecAtomic == ATInit /\ [][ATNext]_vars

RECURSIVE ApplyMarks(_, _, _)
\* the calls of one node run one after the other on its slot
ApplyMarks(slot, j, i) ==
    IF i > 0 THEN ApplyMarks(mark_internal(slot), j, i - 1)
    ELSE IF j > 0 THEN ApplyMarks(mark_junction(slot), j - 1, i)
    ELSE slot

AtQuiescent == \A w \in Workers : workers[w].pc = "idle"

\* C2: whenever no mark is in flight, every node holds the state that running the
\* calls started so far one after the other gives it: no interleaving of the
\* workers' compare-and-swap loops loses or overwrites an update, also not one to
\* another slot of the same byte.
C2_InterleavingsAgree ==
    AtQuiescent =>
        \A n \in AtOffsets :
            SlotOf(cells[CellOf(n)], n) = ApplyMarks(Unused, atCalls[n].j, atCalls[n].i)

\* two workers raced on one byte for two different slots, one had to retry, and both
\* updates are in the byte
C2_Witness ==
    /\ AtQuiescent
    /\ \E w \in Workers : workers[w].retried
    /\ \E n, m \in AtOffsets :
          /\ n # m /\ CellOf(n) = CellOf(m)
          /\ SlotOf(cells[CellOf(n)], n) = Internal
          /\ SlotOf(cells[CellOf(m)], m) = Junction

(***************************************************************************)
(* NodesBuilder and Nodes (generator2/data_types/node.rs)                  *)
(***************************************************************************)
\* ids per page of the builder (page_size / size_of NodeId in NodesBuilder::new)
IdsPerPage == 2

\* pages per section (PAGES_PER_SECTION, scaled down)
PagesPerSection == 2

\* node ids are drawn from -1..MaxNodeId: OSM ids are i64, and 0 is the id the
\* builder pads a page with
MaxNodeId == 3

\* bound on the number of nodes pushed into one builder
MaxPush == 4

NodeIds == (-1)..MaxNodeId

GeoPoints == {<<0, 0>>, <<0, 1>>}

\* stands for i64::MIN, below every id
I64Min == -2

NoNodes == <<>>

RECURSIVE KeyLess(_, _)
\* the order of tuples of integers, as Rust orders tuples: lexicographic
KeyLess(k1, k2) ==
    IF k1 = <<>> \/ k2 = <<>> THEN FALSE
    ELSE IF Head(k1) # Head(k2) THEN Head(k1) < Head(k2)
    ELSE KeyLess(Tail(k1), Tail(k2))

RECURSIVE InsertSorted(_, _)
\* insert x after every element whose key is not greater: a stable insertion
InsertSorted(s, x) ==
    IF s = <<>> THEN <<x>>
    ELSE IF KeyLess(x.key, Head(s).key) THEN <<x>> \o s
    ELSE <<Head(s)>> \o InsertSorted(Tail(s), x)

RECURSIVE SortKeyed(_)
SortKeyed(s) ==
    IF s = <<>> THEN <<>>
    ELSE InsertSorted(SortKeyed(SubSeq(s, 1, Len(s) - 1)), s[Len(s)])

\* slice::sort_by_key, a stable sort: keys[i] is the key of s[i], a tuple of integers
sort_by_key(s, keys) ==
    LET sorted == SortKeyed([i \in 1..Len(s) |-> [key |-> keys[i], val |-> s[i]]])
    IN [i \in 1..Len(s) |-> sorted[i].val]

RECURSIVE BinarySearchFrom(_, _, _, _)
BinarySearchFrom(s, x, lo, hi) ==
    IF lo >= hi THEN [ok |-> FALSE, i |-> lo]
    ELSE LET mid == lo + (hi - lo) \div 2
         IN IF s[mid + 1] < x THEN BinarySearchFrom(s, x, mid + 1, hi)
            ELSE IF s[mid + 1] > x THEN BinarySearchFrom(s, x, lo, mid)
            ELSE [ok |-> TRUE, i |-> mid]

\* slice::binary_search on a sorted slice: Ok(i) or Err(insertion point), 0-based
binary_search(s, x) == BinarySearchFrom(s, x, 0, Len(s))

NodesSectionNew(capacity) ==
    [ids |-> <<>>, points |-> <<>>, barriers |-> zeros(capacity), capacity |-> capacity]

SectionPush(sec, node) ==
    [sec EXCEPT !.barriers = set_bit(sec.barriers, Len(sec.points), node.barrier),
                !.points = Append(sec.points, node.point),
                !.ids = Append(sec.ids, node.id)]

pad_ids(sec, len) == [sec EXCEPT !.ids = sec.ids \o [i \in 1..len |-> 0]]

SectionFull(sec) == Len(sec.ids) = sec.capacity

with_opts(ids_per_page, capacity) ==
    [ids_per_page |-> ids_per_page,
     ids_curr_page |-> 0,
     partial_section |-> NodesSectionNew(capacity),
     last_id |-> I64Min,
     page_min_id |-> <<>>,
     page_section_ids_start |-> 0,
     sections |-> <<>>,
     index_entries |-> <<>>,
     len |-> 0,
     barrier_len |-> 0]

\* finish_block taking the range of the page after the padding
finish_block_padded_range(b) ==
    IF b.ids_curr_page = 0 THEN b
    ELSE LET padded == pad_ids(b.partial_section, b.ids_per_page - b.ids_curr_page)
         IN [b EXCEPT
            !.index_entries = Append(b.index_entries,
                [min_id |-> b.page_min_id[1],
                 section |-> Len(b.sections),
                 section_nodes_offset |-> Len(b.partial_section.points) - b.ids_curr_page,
                 ids_start |-> b.page_section_ids_start,
                 ids_end |-> Len(padded.ids)]),
            !.partial_section = padded,
            !.ids_curr_page = 0,
            !.page_min_id = <<>>,
            !.page_section_ids_start = Len(padded.ids)]

finish_block(b) ==
    IF b.ids_curr_page = 0 THEN b
    ELSE LET padded == pad_ids(b.partial_section, b.ids_per_page - b.ids_curr_page)
         IN [b EXCEPT
            !.index_entries = Append(b.index_entries,
                [min_id |-> b.page_min_id[1],
                 section |-> Len(b.sections),
                 section_nodes_offset |-> Len(b.partial_section.points) - b.ids_curr_page,
                 ids_start |-> b.page_section_ids_start,
                 ids_end |-> Len(b.partial_section.ids)]),
            !.partial_section = padded,
            !.ids_curr_page = 0,
            !.page_min_id = <<>>,
            !.page_section_ids_start = Len(padded.ids)]

\* NodesBuilder::push, after its assert!(node.id > self.last_id)
builder_push(b0, node) ==
    LET b1 == [b0 EXCEPT !.last_id = node.id]
        b2 == IF b1.ids_curr_page = b1.ids_per_page THEN finish_block(b1) ELSE b1
        b3 == IF b2.page_min_id = <<>> THEN [b2 EXCEPT !.page_min_id = <<node.id>>] ELSE b2
        b4 == IF SectionFull(b3.partial_section)
              THEN [b3 EXCEPT !.sections = Append(b3.sections, b3.partial_section),
                              !.partial_section = NodesSectionNew(b3.partial_section.capacity),
                              !.page_section_ids_start = 0]
              ELSE b3
    IN [b4 EXCEPT !.partial_section = SectionPush(b4.partial_section, node),
                  !.ids_curr_page = @ + 1,
                  !.len = @ + 1,
                  !.barrier_len = IF node.barrier THEN @ + 1 ELSE @]

\* NodesBuilder::finish: the sections and the index entries of one builder
builder_finish(b) ==
    LET f == finish_block(b)
    IN [sections |-> Append(f.sections, f.partial_section), index_entries |-> f.index_entries]

RECURSIVE MetasFrom(_, _)
MetasFrom(entries, nodes_offset) ==
    IF entries = <<>> THEN <<>>
    ELSE LET e == Head(entries)
         IN <<[nodes_offset |-> nodes_offset,
               section |-> e.section,
               section_nodes_offset |-> e.section_nodes_offset,
               ids_start |-> e.ids_start,
               ids_end |-> e.ids_end]>>
            \o MetasFrom(Tail(entries), nodes_offset + (e.ids_end - e.ids_start))

\* Index::from_entries without its sort
from_entries_unsorted(index_entries) ==
    [min_ids |-> [i \in 1..Len(index_entries) |-> index_entries[i].min_id],
     metas |-> MetasFrom(index_entries, 0)]

\* Index::from_entries
from_entries(index_entries) ==
    LET sorted == sort_by_key(index_entries,
                      [i \in 1..Len(index_entries) |-> <<index_entries[i].min_id>>])
    IN [min_ids |-> [i \in 1..Len(sorted) |-> sorted[i].min_id],
        metas |-> MetasFrom(sorted, 0)]

RECURSIVE CollectBuilders(_, _, _)
\* the loop of Nodes::from_builders over the builders
CollectBuilders(builders, all_sections, all_entries) ==
    IF builders = <<>> THEN [sections |-> all_sections, entries |-> all_entries]
    ELSE LET f == builder_finish(Head(builders))
             shifted == [i \in 1..Len(f.index_entries) |->
                            [f.index_entries[i] EXCEPT !.section = @ + Len(all_sections)]]
         IN CollectBuilders(Tail(builders), all_sections \o f.sections, all_entries \o shifted)

from_builders(builders) ==
    LET c == CollectBuilders(builders, <<>>, <<>>)
    IN [sections |-> c.sections,
        index |-> from_entries(c.entries),
        len |-> SumSeq([i \in 1..Len(builders) |-> builders[i].len]),
        barrier_len |-> SumSeq([i \in 1..Len(builders) |-> builders[i].barrier_len])]

NotFound == [found |-> FALSE]

\* Index::search
index_search(index, id) ==
    LET r == binary_search(index.min_ids, id)
    IN IF r.ok THEN [found |-> TRUE, meta |-> index.metas[r.i + 1]]
       ELSE IF r.i = 0 THEN NotFound
       ELSE [found |-> TRUE, meta |-> index.metas[r.i]]

\* Nodes::search
nodes_search(ns, id) ==
    LET m == index_search(ns.index, id)
    IN IF ~m.found THEN NotFound
       ELSE LET section_ids == ns.sections[m.meta.section + 1].ids
                page_ids == SubSeq(section_ids, m.meta.ids_start + 1, m.meta.ids_end)
                r == binary_search(page_ids, id)
            IN IF r.ok THEN [found |-> TRUE, meta |-> m.meta, i |-> r.i] ELSE NotFound

\* the offset inside the section taken for the global one
nodes_offset_section_local(ns, id) ==
    LET r == nodes_search(ns, id)
    IN IF r.found THEN [found |-> TRUE, offset |-> r.meta.section_nodes_offset + r.i]
       ELSE NotFound

\* Nodes::offset
nodes_offset(ns, id) ==
    LET r == nodes_search(ns, id)
    IN IF r.found THEN [found |-> TRUE, offset |-> r.meta.nodes_offset + r.i] ELSE NotFound

\* Nodes::node
nodes_node(ns, id) ==
    LET r == nodes_search(ns, id)
    IN IF ~r.found THEN NotFound
       ELSE LET section == ns.sections[r.meta.section + 1]
                offset == r.meta.section_nodes_offset + r.i
            IN [found |-> TRUE,
                node |-> [id |-> id,
                          point |-> section.points[offset + 1],
                          barrier |-> get_bit(section.barriers, offset)]]

NDInit ==
    /\ nb = with_opts(IdsPerPage, IdsPerPage * PagesPerSection)
    /\ nodes = NoNodes
    /\ pushed = <<>>
    /\ jb = <<>> /\ jbCalls = <<>>
    /\ cells = <<>> /\ workers = <<>> /\ atCalls = <<>>
    /\ graph = <<>> /\ arcs = {} /\ built = <<>> /\ stage = "idle" /\ file = <<>> /\ carto = <<>>
    /\ smK = 0 /\ stream = <<>> /\ plain = <<>> /\ strata = <<>> /\ minPrio = 0
    /\ smPhase = "idle" /\ smResult = <<>> /\ smByPrio = <<>>
    /\ roads = <<>> /\ cand = 0 /\ query = <<>> /\ singles = <<>> /\ multi = <<>>
    /\ rtPhase = "idle"
    /\ parts = <<>> /\ whole = <<>> /\ acc = <<>> /\ pending = {}
    /\ nbs = <<>> /\ fed = <<>> /\ cur = 0 /\ listed = <<>> /\ assembled = <<>>
    /\ osmWay = <<>> /\ store = <<>> /\ wayArcs = <<>> /\ wyPhase = "idle"
    /\ disk = <<>> /\ opened = <<>> /\ rdPhase = "idle"
    /\ profile = "none" /\ score = <<>> /\ exact = <<>> /\ hops = 0 /\ coPhase = "idle"
    /\ series = <<>> /\ builds = <<>> /\ encoded = <<>> /\ decoded = <<>> /\ dlPhase = "idle"
    /\ waysBlobs = <<>> /\ taskQ = <<>> /\ held = <<>> /\ resultQ = <<>> /\ pgraph = <<>>
    /\ plPhase = "idle"
    /\ orderA = <<>> /\ orderB = <<>> /\ runA = <<>> /\ runB = <<>>
    /\ tablesA = <<>> /\ tablesB = <<>> /\ odStage = "idle"
    /\ ob = <<>> /\ oldNodes = <<>>
    /\ osmFile = <<>> /\ classified = <<>> /\ clPhase = "idle"
    /\ scBlobs = <<>> /\ scThreads = 0 /\ scTaken = 0 /\ scWorkers = <<>> /\ scStop = 0
    /\ scResults = <<>> /\ scMain = <<>> /\ scPhase = "idle"
    /\ nfFile = <<>> /\ nfJunctions = <<>> /\ nfQueue = <<>> /\ nfWorkers = <<>>
    /\ nfNodes = <<>> /\ nfPhase = "idle"

NDPush ==
    \E id \in NodeIds, point \in GeoPoints, barrier \in BOOLEAN :
        /\ nodes = NoNodes
        /\ Len(pushed) < MaxPush
        /\ id > nb.last_id
        /\ LET node == [id |-> id, point |-> point, barrier |-> barrier]
           IN /\ nb' = builder_push(nb, node)
              /\ pushed' = Append(pushed, node)
        /\ UNCHANGED nodes
        /\ NDOnly

NDFinishBlock ==
    /\ nodes = NoNodes
    /\ nb.ids_curr_page > 0
    /\ nb' = finish_block(nb)
    /\ UNCHANGED <<nodes, pushed>>
    /\ NDOnly

NDBuild ==
    /\ nodes = NoNodes
    /\ nodes' = from_builders(<<nb>>)
    /\ UNCHANGED <<nb, pushed>>
    /\ NDOnly

NDNext == NDPush \/ NDFinishBlock \/ NDBuild

SpecNodes == NDInit /\ [][NDNext]_vars

\* C3: once the store is built from one builder, the offset of every pushed id is
\* its 0-based rank among the pushed ids (so the offsets fill [0, len())), and
\* node(id) gives back the point and the barrier flag pushed for it, wherever
\* finish_block was called between the pushes.
C3_OffsetIsRank ==
    nodes # NoNodes =>
        /\ nodes.len = Len(pushed)
        /\ \A k \in 1..Len(pushed) :
              /\ nodes_offset(nodes, pushed[k].id) = [found |-> TRUE, offset |-> k - 1]
              /\ nodes_node(nodes, pushed[k].id) = [found |-> TRUE, node |-> pushed[k]]

\* a store of two sections with a padded block, a barrier node and a gap in the ids
C3_Witness ==
    /\ nodes # NoNodes
    /\ Len(nodes.sections) >= 2
    /\ Len(pushed) >= 3
    /\ \E k \in 1..Len(pushed) : pushed[k].barrier /\ pushed[k].point = <<0, 1>>
    /\ \E k \in 1..(Len(pushed) - 1) : pushed[k + 1].id > pushed[k].id + 1
    /\ \E s \in 1..Len(nodes.sections) :
          Len(nodes.sections[s].ids) > Len(nodes.sections[s].points)

(***************************************************************************)
(* Graph (generator/data_types/graph.rs) over a petgraph::Graph: nodes and *)
(* edges live in two vectors and are addressed by their 0-based position.  *)
(***************************************************************************)
\* bound on the number of different arcs pushed into the graph
MaxArcs == 3

\* the OSM node ids of the Nodes store the graph is built over
OsmIds == {1, 2, 3}

\* (lat, lon) of each OSM node, in micro-degrees; two nodes share one position
OsmPoint(id) ==
    CASE id = 1 -> [lat |-> 1, lon |-> 0]
      [] id = 2 -> [lat |-> -1, lon |-> 1]
      [] id = 3 -> [lat |-> -1, lon |-> 1]

\* road_level and distance of the arcs pushed
ArcInfos == {[road_level |-> 2, distance |-> 2], [road_level |-> 5, distance |-> 1]}

\* NodeIndex::end()
NodeIndexEnd == -1

\* Nodes::offset of an id of the store: its rank
OsmOffset(id) == Cardinality({j \in OsmIds : j < id})

GraphNew ==
    [nodes |-> <<>>,
     edges |-> <<>>,
     node_indexes |-> [o \in 0..(Cardinality(OsmIds) - 1) |-> NodeIndexEnd]]

EmptyGraph == [nodes |-> <<>>, edges |-> <<>>]

node_len(g) == Len(g.nodes)

edge_len(g) == Len(g.edges)

NodeIdx(g) == 0..(Len(g.nodes) - 1)

\* petgraph add_edge: parallel edges are allowed
add_edge(g, a, b, info) ==
    [g EXCEPT !.edges = Append(g.edges,
        [source |-> a, target |-> b,
         road_level |-> info.road_level, distance |-> info.distance])]

\* Graph::ensure_node: [g, idx]
ensure_node(g, id) ==
    LET offset == OsmOffset(id)
    IN IF g.node_indexes[offset] = NodeIndexEnd
       THEN [g |-> [g EXCEPT !.nodes = Append(g.nodes, [id |-> id, point |-> OsmPoint(id)]),
                             !.node_indexes[offset] = Len(g.nodes)],
             idx |-> Len(g.nodes)]
       ELSE [g |-> g, idx |-> g.node_indexes[offset]]

\* an edge between a and b in either direction
find_edge_undirected(g, a, b) ==
    LET hits == {e \in 1..Len(g.edges) :
                    \/ g.edges[e].source = a /\ g.edges[e].target = b
                    \/ g.edges[e].source = b /\ g.edges[e].target = a}
    IN IF hits = {} THEN 0 ELSE CHOOSE e \in hits : \A f \in hits : f <= e

\* petgraph find_edge on a directed graph: the latest edge from a to b, 0 when none
find_edge(g, a, b) ==
    LET hits == {e \in 1..Len(g.edges) : g.edges[e].source = a /\ g.edges[e].target = b}
    IN IF hits = {} THEN 0 ELSE CHOOSE e \in hits : \A f \in hits : f <= e

\* push_arc where the arc pushed last replaces the EdgeInfo of the edge
push_arc_keeps_latest(g0, from, to, road_level, distance) ==
    LET r1 == ensure_node(g0, from)
        r2 == ensure_node(r1.g, to)
        g == r2.g
        edge == find_edge(g, r1.idx, r2.idx)
    IN IF edge # 0
       THEN [g EXCEPT !.edges[edge].road_level = road_level,
                      !.edges[edge].distance = distance]
       ELSE add_edge(g, r1.idx, r2.idx, [road_level |-> road_level, distance |-> distance])

push_arc(g0, from, to, road_level, distance) ==
    LET r1 == ensure_node(g0, from)
        r2 == ensure_node(r1.g, to)
        g == r2.g
        edge == find_edge(g, r1.idx, r2.idx)
    IN IF edge # 0
       THEN [g EXCEPT !.edges[edge].road_level = Max(@, road_level),
                      !.edges[edge].distance = Min(@, distance)]
       ELSE add_edge(g, r1.idx, r2.idx, [road_level |-> road_level, distance |-> distance])

RECURSIVE ReachFrom(_, _)
\* the nodes a depth-first search from `seen` discovers along directed edges
ReachFrom(g, seen) ==
    LET more == {g.edges[e].target : e \in {f \in 1..Len(g.edges) : g.edges[f].source \in seen}}
    IN IF more \subseteq seen THEN seen ELSE ReachFrom(g, seen \cup more)

\* the search started from the targets of the root edges alone
DiscoveredFromTargets(g, max_root_road_level) ==
    LET roots == {g.edges[e].target :
                    e \in {f \in 1..Len(g.edges) :
                              g.edges[f].road_level <= max_root_road_level}}
    IN ReachFrom(g, roots)

\* the nodes retain_reachable_nodes marks discovered
Discovered(g, max_root_road_level) ==
    LET roots == UNION {{g.edges[e].source, g.edges[e].target} :
                        e \in {f \in 1..Len(g.edges) :
                                  g.edges[f].road_level <= max_root_road_level}}
    IN ReachFrom(g, roots)

\* petgraph remove_node: the edges of the node go, the last node takes its index
remove_node(g, a) ==
    LET last == Len(g.nodes) - 1
        kept == SelectSeq(g.edges, LAMBDA e : e.source # a /\ e.target # a)
        Moved(i) == IF i = last THEN a ELSE i
    IN [g EXCEPT
          !.nodes = IF a = last THEN SubSeq(g.nodes, 1, last)
                    ELSE [i \in 1..last |-> IF i = a + 1 THEN g.nodes[last + 1] ELSE g.nodes[i]],
          !.edges = [e \in 1..Len(kept) |->
                       [kept[e] EXCEPT !.source = Moved(@), !.target = Moved(@)]]]

RECURSIVE RetainFrom(_, _, _)
\* petgraph retain_nodes: the nodes in reverse index order, each kept or removed
RetainFrom(g, keep, index) ==
    IF index < 0 THEN g
    ELSE RetainFrom(IF index \in keep THEN g ELSE remove_node(g, index), keep, index - 1)

RECURSIVE RetainUpFrom(_, _, _)
\* retain_nodes walking the indexes upwards: the node swapped into a freed index is
\* never looked at
RetainUpFrom(g, keep, index) ==
    IF index >= Len(g.nodes) THEN g
    ELSE RetainUpFrom(IF index \in keep THEN g ELSE remove_node(g, index), keep, index + 1)

retain_reachable_nodes_upwards(g, max_root_road_level) ==
    RetainUpFrom(g, Discovered(g, max_root_road_level), 0)

retain_reachable_nodes(g, max_root_road_level) ==
    RetainFrom(g, Discovered(g, max_root_road_level), Len(g.nodes) - 1)

\* the strongly connected component of a node
ComponentOf(g, n) == {m \in ReachFrom(g, {n}) : n \in ReachFrom(g, {m})}

\* kosaraju_scc, as the set of components
scc(g) == {ComponentOf(g, n) : n \in NodeIdx(g)}

RECURSIVE DoubleFrom(_, _, _)
DoubleFrom(g, base, e) ==
    IF e > Len(base.edges) THEN g
    ELSE LET edge == base.edges[e]
         IN DoubleFrom(
                IF ComponentOf(base, edge.source) # ComponentOf(base, edge.target)
                THEN add_edge(g, edge.target, edge.source, edge)
                ELSE g,
                base, e + 1)

RECURSIVE DoubleAs(_, _, _, _)
\* the loop of fix_dead_ends with another rule for the edge it adds: `every` doubles
\* an edge inside a component as well, NewEdge(edge) is the [source, target,
\* road_level, distance] added for an edge
DoubleAs(g, base, e, rule) ==
    IF e > Len(base.edges) THEN g
    ELSE LET edge == base.edges[e]
             new == IF rule = "same way"
                    THEN [source |-> edge.source, target |-> edge.target,
                          road_level |-> edge.road_level, distance |-> edge.distance]
                    ELSE IF rule = "fake info"
                    THEN [source |-> edge.target, target |-> edge.source,
                          road_level |-> 5, distance |-> edge.distance]
                    ELSE [source |-> edge.target, target |-> edge.source,
                          road_level |-> edge.road_level, distance |-> edge.distance]
         IN DoubleAs(
                IF rule = "every" \/ ComponentOf(base, edge.source) # ComponentOf(base, edge.target)
                THEN add_edge(g, new.source, new.target, new)
                ELSE g,
                base, e + 1, rule)

\* fix_dead_ends doubling every edge, whatever the components of its ends
fix_dead_ends_every_edge(g) == DoubleAs(g, g, 1, "every")

\* fix_dead_ends adding a second copy of the edge instead of its reverse
fix_dead_ends_same_way(g) == DoubleAs(g, g, 1, "same way")

\* fix_dead_ends adding the reverse edge as a road of level 5
fix_dead_ends_fake_info(g) == DoubleAs(g, g, 1, "fake info")

fix_dead_ends(g) == DoubleFrom(g, g, 1)

\* GeoPoint::haversine_distance as u32, on the model's grid: the planar distance
\* in tenths of a micro-degree, rounded down
haversine_distance(p, q) ==
    LET d2 == 100 * ((p.lat - q.lat) * (p.lat - q.lat) + (p.lon - q.lon) * (p.lon - q.lon))
    IN CHOOSE r \in 0..d2 : r * r <= d2 /\ (r + 1) * (r + 1) > d2

\* squared distance of the Web-Mercator projections, on the model's grid
Distance2(p, q) == (p.lat - q.lat) * (p.lat - q.lat) + (p.lon - q.lon) * (p.lon - q.lon)

\* RTree::nearest_neighbor: the base nodes nearest to node n
NearestBase(g, base_nodes, n) ==
    {b \in base_nodes : \A c \in base_nodes :
        Distance2(g.nodes[n + 1].point, g.nodes[b + 1].point)
            <= Distance2(g.nodes[n + 1].point, g.nodes[c + 1].point)}

\* the (distance, node_index, base_index) triples min_by_key may return for one
\* component, given the neighbour the index returned for each of its nodes
BestLinks(g, component, nn) ==
    LET Dist(n) == haversine_distance(g.nodes[n + 1].point, g.nodes[nn[n] + 1].point)
    IN {[distance |-> Dist(n), node_index |-> n, base_index |-> nn[n]] :
            n \in {m \in component : \A k \in component : Dist(m) <= Dist(k)}}

\* every triple strongly_connect may pick to link a component to the base
LinksOf(g, base, component) ==
    UNION {BestLinks(g, component, nn) :
             nn \in {f \in [component -> base] :
                        \A n \in component : f[n] \in NearestBase(g, base, n)}}

RECURSIVE bridge_one_way(_, _, _)
\* the loop of strongly_connect with the arc towards the base only
bridge_one_way(g, others, link) ==
    IF others = {} THEN g
    ELSE LET c == CHOOSE x \in others : TRUE
             l == link[c]
         IN bridge_one_way(add_edge(g, l.node_index, l.base_index,
                                    [road_level |-> 5, distance |-> l.distance]),
                           others \ {c}, link)

RECURSIVE Bridge(_, _, _)
\* the loop of strongly_connect over the other components, smallest node first
Bridge(g, others, link) ==
    IF others = {} THEN g
    ELSE LET c == CHOOSE x \in others : \A y \in others :
                    (CHOOSE n \in x : \A m \in x : n <= m) <= (CHOOSE n \in y : \A m \in y : n <= m)
             l == link[c]
             info == [road_level |-> 5, distance |-> l.distance]
         IN Bridge(add_edge(add_edge(g, l.node_index, l.base_index, info),
                            l.base_index, l.node_index, info),
                   others \ {c}, link)

GRInit ==
    /\ graph = GraphNew
    /\ arcs = {}
    /\ built = <<>>
    /\ stage = "build"
    /\ file = <<>>
    /\ carto = <<>>
    /\ jb = <<>> /\ jbCalls = <<>>
    /\ cells = <<>> /\ workers = <<>> /\ atCalls = <<>>
    /\ nb = <<>> /\ nodes = <<>> /\ pushed = <<>>
    /\ smK = 0 /\ stream = <<>> /\ plain = <<>> /\ strata = <<>> /\ minPrio = 0
    /\ smPhase = "idle" /\ smResult = <<>> /\ smByPrio = <<>>
    /\ roads = <<>> /\ cand = 0 /\ query = <<>> /\ singles = <<>> /\ multi = <<>>
    /\ rtPhase = "idle"
    /\ parts = <<>> /\ whole = <<>> /\ acc = <<>> /\ pending = {}
    /\ nbs = <<>> /\ fed = <<>> /\ cur = 0 /\ listed = <<>> /\ assembled = <<>>
    /\ osmWay = <<>> /\ store = <<>> /\ wayArcs = <<>> /\ wyPhase = "idle"
    /\ disk = <<>> /\ opened = <<>> /\ rdPhase = "idle"
    /\ profile = "none" /\ score = <<>> /\ exact = <<>> /\ hops = 0 /\ coPhase = "idle"
    /\ series = <<>> /\ builds = <<>> /\ encoded = <<>> /\ decoded = <<>> /\ dlPhase = "idle"
    /\ waysBlobs = <<>> /\ taskQ = <<>> /\ held = <<>> /\ resultQ = <<>> /\ pgraph = <<>>
    /\ plPhase = "idle"
    /\ orderA = <<>> /\ orderB = <<>> /\ runA = <<>> /\ runB = <<>>
    /\ tablesA = <<>> /\ tablesB = <<>> /\ odStage = "idle"
    /\ ob = <<>> /\ oldNodes = <<>>
    /\ osmFile = <<>> /\ classified = <<>> /\ clPhase = "idle"
    /\ scBlobs = <<>> /\ scThreads = 0 /\ scTaken = 0 /\ scWorkers = <<>> /\ scStop = 0
    /\ scResults = <<>> /\ scMain = <<>> /\ scPhase = "idle"
    /\ nfFile = <<>> /\ nfJunctions = <<>> /\ nfQueue = <<>> /\ nfWorkers = <<>>
    /\ nfNodes = <<>> /\ nfPhase = "idle"

\* parse_file: the arcs of the ways go into the graph one by one
GRPushArc ==
    \E from \in OsmIds, to \in OsmIds, info \in ArcInfos :
        /\ stage = "build"
        /\ Cardinality(arcs) < MaxArcs
        /\ graph' = push_arc(graph, from, to, info.road_level, info.distance)
        /\ arcs' = arcs \cup {[from |-> from, to |-> to,
                                  road_level |-> info.road_level, distance |-> info.distance]}
        /\ UNCHANGED <<built, stage, file, carto>>
        /\ GROnly

GRRetain ==
    /\ stage = "build"
    /\ graph' = retain_reachable_nodes(graph, 2)
    /\ built' = graph
    /\ stage' = "pruned"
    /\ UNCHANGED <<arcs, file, carto>>
    /\ GROnly

GRFixDeadEnds ==
    /\ stage = "pruned"
    /\ graph' = fix_dead_ends(graph)
    /\ stage' = "fixed"
    /\ UNCHANGED <<arcs, built, file, carto>>
    /\ GROnly

\* strongly_connect; max_by_key(..).unwrap() panics when there is no component
GRStronglyConnect ==
    /\ stage = "fixed"
    /\ LET components == scc(graph)
       IN IF components = {}
          THEN /\ stage' = "panic"
               /\ UNCHANGED graph
          ELSE \E base \in {c \in components :
                                \A d \in components : Cardinality(d) <= Cardinality(c)} :
               \E link \in [components \ {base} ->
                                UNION {LinksOf(graph, base, c) : c \in components \ {base}}] :
                  /\ \A c \in components \ {base} : link[c] \in LinksOf(graph, base, c)
                  /\ graph' = Bridge(graph, components \ {base}, link)
                  /\ stage' = "connected"
    /\ UNCHANGED <<arcs, built, file, carto>>
    /\ GROnly

(***************************************************************************)
(* The artifact: generator/parser/serialize.rs writes it, Cartograph::open *)
(* reads it.  A file is a sequence of bytes.                               *)
(***************************************************************************)
\* b"PTOLEMY-v2"
Magic == <<80, 84, 79, 76, 69, 77, 89, 45, 118, 50>>

\* i32::MAX; the integers of the model are the i32 values, and a u32 or u64
\* is a value of that range
I32Max == 2147483647

\* i32 addition, wrapping around
WrappingAdd(a, b) ==
    IF b > 0 /\ a > I32Max - b THEN ((a - I32Max) - 1) + ((b - I32Max) - 1)
    ELSE IF b < 0 /\ a < ((-I32Max) - 1) - b THEN ((a + I32Max) + 1) + ((b + I32Max) + 1)
    ELSE a + b

\* i32 subtraction, wrapping around
WrappingSub(a, b) ==
    IF b < 0 /\ a > I32Max + b THEN ((a - I32Max) - 1) - ((b + I32Max) + 1)
    ELSE IF b > 0 /\ a < ((-I32Max) - 1) + b THEN ((a + I32Max) + 1) - ((b - I32Max) - 1)
    ELSE a - b

RECURSIVE LEBytes(_, _)
\* the n little-endian bytes of v in two's complement
LEBytes(v, n) == IF n = 0 THEN <<>> ELSE <<v % 256>> \o LEBytes(v \div 256, n - 1)

RECURSIVE FromLE(_)
\* the unsigned value of little-endian bytes
FromLE(bytes) == IF bytes = <<>> THEN 0 ELSE Head(bytes) + 256 * FromLE(Tail(bytes))

\* read_i32::<LittleEndian> of four bytes
I32FromLE(bytes) ==
    FromLE(SubSeq(bytes, 1, 3)) + 16777216 * (IF bytes[4] >= 128 THEN bytes[4] - 256 ELSE bytes[4])

\* the gzip container around a payload: magic bytes in front, its size behind;
\* the deflate stream in between is stored
GzEncode(bytes) == <<31, 139>> \o bytes \o LEBytes(Len(bytes), 4)

\* the payload of a gzip container, as far as it is there
GzDecode(bytes) ==
    IF Len(bytes) >= 6 /\ SubSeq(bytes, 1, 2) = <<31, 139>>
    THEN SubSeq(bytes, 3, Len(bytes) - 4)
    ELSE <<>>

\* compress: the first value, then each value minus its predecessor, as i32
compress(values) ==
    GzEncode(LEBytes(values[1], 4) \o
             ConcatRange([i \in 2..Len(values) |-> LEBytes(WrappingSub(values[i], values[i - 1]), 4)],
                      2, Len(values)))

\* one column of the file: length of the compressed bytes as u64, then the bytes
Column(values) == LEBytes(Len(compress(values)), 8) \o compress(values)

\* the remap of serialize the wrong way round: [new_index] = old_index
node_index_map_inverse(g) ==
    LET order == sort_by_key([i \in 1..Len(g.nodes) |-> i - 1],
                             [i \in 1..Len(g.nodes) |-> <<g.nodes[i].point.lat, g.nodes[i].point.lon>>])
    IN [old \in NodeIdx(g) |-> order[old + 1]]

\* node_index_map[old_index] = new_index, after the sort by (lat, lon)
node_index_map(g) ==
    LET order == sort_by_key([i \in 1..Len(g.nodes) |-> i - 1],
                             [i \in 1..Len(g.nodes) |-> <<g.nodes[i].point.lat, g.nodes[i].point.lon>>])
    IN [old \in NodeIdx(g) |-> (CHOOSE i \in 1..Len(order) : order[i] = old) - 1]

\* the nodes of serialize, sorted by (lat, lon)
SortedNodes(g) ==
    sort_by_key(g.nodes, [i \in 1..Len(g.nodes) |-> <<g.nodes[i].point.lat, g.nodes[i].point.lon>>])

\* the edges of serialize, remapped and sorted by (source, target)
SortedEdges(g) ==
    LET remap == node_index_map(g)
        es == [e \in 1..Len(g.edges) |->
                    [source |-> remap[g.edges[e].source], target |-> remap[g.edges[e].target],
                     distance |-> g.edges[e].distance,
                     road_level |-> g.edges[e].road_level]]
    IN sort_by_key(es, [e \in 1..Len(es) |-> <<es[e].source, es[e].target>>])

\* serialize: the bytes written; compress unwraps the first value of each column
serialize(g) ==
    LET ns == SortedNodes(g)
        es == SortedEdges(g)
    IN Magic \o LEBytes(node_len(g), 4) \o LEBytes(edge_len(g), 4)
        \o Column([i \in 1..Len(ns) |-> ns[i].point.lat])
        \o Column([i \in 1..Len(ns) |-> ns[i].point.lon])
        \o Column([e \in 1..Len(es) |-> es[e].source])
        \o Column([e \in 1..Len(es) |-> es[e].target])
        \o Column([e \in 1..Len(es) |-> es[e].distance])
        \o Column([e \in 1..Len(es) |-> es[e].road_level])

\* what a failed read returns
IoError == [ok |-> FALSE]

RECURSIVE Undelta(_, _, _, _)
\* the loop of decompress: `count` more deltas from position pos of the payload,
\* each added to prev as i32; <<>> when the payload ends early
Undelta(payload, pos, prev, count) ==
    IF count = 0 THEN <<prev>>
    ELSE IF pos + 3 > Len(payload) THEN <<>>
    ELSE LET value == WrappingAdd(prev, I32FromLE(SubSeq(payload, pos, pos + 3)))
             rest == Undelta(payload, pos + 4, value, count - 1)
         IN IF rest = <<>> THEN <<>> ELSE <<prev>> \o rest

\* Cartograph::decompress at position pos of the file: [ok, values, next]
decompress(bytes, pos, len) ==
    IF pos + 7 > Len(bytes) THEN IoError
    ELSE LET length == FromLE(SubSeq(bytes, pos, pos + 7))
             chunk == SubSeq(bytes, pos + 8, Min(pos + 7 + length, Len(bytes)))
             payload == GzDecode(chunk)
             values == IF Len(payload) < 4 THEN <<>>
                       ELSE Undelta(payload, 5, I32FromLE(SubSeq(payload, 1, 4)),
                                    Max(len, 1) - 1)
         IN IF values = <<>> THEN IoError
            ELSE [ok |-> TRUE, values |-> values, next |-> pos + 8 + Len(chunk)]

RECURSIVE ReadColumns(_, _, _)
\* the columns of the lengths `lens` one after the other: [ok, columns]
ReadColumns(bytes, pos, lens) ==
    IF lens = <<>> THEN [ok |-> TRUE, columns |-> <<>>]
    ELSE LET column == decompress(bytes, pos, Head(lens))
         IN IF ~column.ok THEN IoError
            ELSE LET rest == ReadColumns(bytes, column.next, Tail(lens))
                 IN IF ~rest.ok THEN IoError
                    ELSE [ok |-> TRUE, columns |-> <<column.values>> \o rest.columns]

\* Cartograph::open up to the graph: [ok, nodes, edges]; the ten header bytes
\* are read and not looked at
open(bytes) ==
    LET pos == Min(Len(Magic), Len(bytes)) + 1
    IN IF pos + 7 > Len(bytes) THEN IoError
       ELSE LET num_nodes == FromLE(SubSeq(bytes, pos, pos + 3))
                num_edges == FromLE(SubSeq(bytes, pos + 4, pos + 7))
                read == ReadColumns(bytes, pos + 8,
                            <<num_nodes, num_nodes, num_edges, num_edges, num_edges, num_edges>>)
            IN IF ~read.ok THEN IoError
               ELSE LET c == read.columns
                        n == Min(Len(c[1]), Len(c[2]))
                        m == Min(Min(Len(c[3]), Len(c[4])), Min(Len(c[5]), Len(c[6])))
                    IN [ok |-> TRUE,
                        nodes |-> [i \in 1..n |-> [lat |-> c[1][i], lon |-> c[2][i]]],
                        edges |-> [e \in 1..m |->
                                     [source |-> c[3][e], target |-> c[4][e],
                                      distance |-> c[5][e],
                                      road_level |-> c[6][e] % 256]]]

\* petgraph add_edge panics on an endpoint that is not a node
OpenPanics(c) ==
    c.ok /\ \E e \in 1..Len(c.edges) :
                \/ c.edges[e].source < 0 \/ c.edges[e].source >= Len(c.nodes)
                \/ c.edges[e].target < 0 \/ c.edges[e].target >= Len(c.nodes)

\* generate: the graph is written once the surgery is through
GRSerialize ==
    /\ stage = "connected"
    /\ IF node_len(graph) = 0 \/ edge_len(graph) = 0
       THEN stage' = "panic" /\ UNCHANGED file
       ELSE stage' = "serialized" /\ file' = serialize(graph)
    /\ UNCHANGED <<graph, arcs, built, carto>>
    /\ GROnly

GROpen ==
    /\ stage = "serialized"
    /\ IF OpenPanics(open(file))
       THEN stage' = "panic" /\ UNCHANGED carto
       ELSE stage' = "opened" /\ carto' = open(file)
    /\ UNCHANGED <<graph, arcs, built, file>>
    /\ GROnly

GRNext ==
    \/ GRPushArc
    \/ GRRetain
    \/ GRFixDeadEnds
    \/ GRStronglyConnect
    \/ GRSerialize
    \/ GROpen

SpecGraph == GRInit /\ [][GRNext]_vars

\* the OSM ids at the two ends of edge e
EdgeIds(g, e) == <<g.nodes[g.edges[e].source + 1].id, g.nodes[g.edges[e].target + 1].id>>

\* the arcs pushed from a to b
ArcsOf(a, b) == {arc \in arcs : arc.from = a /\ arc.to = b}

\* C4: after any sequence of push_arc calls the graph holds exactly one edge for
\* every ordered pair (from, to) that was pushed and none for any other pair, and
\* that edge carries the least distance and the greatest road_level pushed for
\* the pair; the arcs pushed for (b, a) or any other pair have no part in it.
C4_OneEdgePerPair ==
    stage = "build" =>
        \A a \in OsmIds, b \in OsmIds :
            LET edges == {e \in 1..Len(graph.edges) : EdgeIds(graph, e) = <<a, b>>}
            IN IF ArcsOf(a, b) = {} THEN edges = {}
               ELSE /\ Cardinality(edges) = 1
                    /\ \A e \in edges :
                        /\ \E arc \in ArcsOf(a, b) : graph.edges[e].distance = arc.distance
                        /\ \A arc \in ArcsOf(a, b) : graph.edges[e].distance <= arc.distance
                        /\ \E arc \in ArcsOf(a, b) : graph.edges[e].road_level = arc.road_level
                        /\ \A arc \in ArcsOf(a, b) : graph.edges[e].road_level >= arc.road_level

\* a pair pushed twice with different weights, and its reverse pushed as well
C4_Witness ==
    /\ stage = "build"
    /\ \E a \in OsmIds, b \in OsmIds :
        /\ a # b
        /\ ArcsOf(b, a) # {}
        /\ \E i \in ArcsOf(a, b), j \in ArcsOf(a, b) :
              i.distance < j.distance /\ i.road_level > j.road_level
        /\ \E e \in 1..Len(graph.edges) :
              /\ EdgeIds(graph, e) = <<a, b>>
              /\ graph.edges[e].distance = 1
              /\ graph.edges[e].road_level = 5

\* strongly_connect was called: it returned or it panicked
SurgeryRan == stage \in {"connected", "serialized", "opened", "panic"}

\* C5 as stated: after retain_reachable_nodes(2), fix_dead_ends and
\* strongly_connect have run in that order on any non-empty graph, the graph has
\* exactly one strongly connected component.
C5_AnyNonEmptyGraph ==
    (SurgeryRan /\ node_len(built) > 0) => (stage # "panic" /\ Cardinality(scc(graph)) = 1)

\* C5: after retain_reachable_nodes(2), fix_dead_ends and strongly_connect have
\* run in that order on a graph that has at least one edge of road_level <= 2,
\* strongly_connect has returned and the graph has exactly one strongly connected
\* component; on a graph without such an edge the prune leaves no node and
\* strongly_connect panics.
C5_OneComponent ==
    SurgeryRan =>
        IF \E e \in 1..edge_len(built) : built.edges[e].road_level <= 2
        THEN stage # "panic" /\ Cardinality(scc(graph)) = 1
        ELSE stage = "panic" /\ node_len(graph) = 0

\* strongly_connect has linked two parts of the map no arc connects
C5_Witness ==
    /\ stage = "connected"
    /\ Cardinality(scc(graph)) = 1
    /\ \E e \in 1..Len(graph.edges) :
          LET ids == EdgeIds(graph, e)
          IN ArcsOf(ids[1], ids[2]) = {} /\ ArcsOf(ids[2], ids[1]) = {}

\* the bijections between the old node indexes and the new ones
NodePermutations(n) ==
    {f \in [0..(n - 1) -> 0..(n - 1)] : \A i \in 0..(n - 1), j \in 0..(n - 1) : f[i] = f[j] => i = j}

\* the (source, target, distance, road_level) tuples of a sequence of edges
EdgeTuples(edges) ==
    {<<edges[e].source, edges[e].target, edges[e].distance, edges[e].road_level>> :
        e \in 1..Len(edges)}

\* C6: serializing a graph and reading the file back yields a graph with the same
\* node and edge counts whose nodes are the nodes of the original in ascending
\* (lat, lon) order, and whose set of (source, target, distance, road_level)
\* tuples is the edge set of the original with the node indexes mapped through
\* that permutation.
C6_RoundTrip ==
    stage = "opened" =>
        /\ carto.ok
        /\ Len(carto.nodes) = node_len(graph)
        /\ Len(carto.edges) = edge_len(graph)
        /\ \A i \in 1..(Len(carto.nodes) - 1) :
              \/ carto.nodes[i].lat < carto.nodes[i + 1].lat
              \/ /\ carto.nodes[i].lat = carto.nodes[i + 1].lat
                 /\ carto.nodes[i].lon <= carto.nodes[i + 1].lon
        /\ \E perm \in NodePermutations(node_len(graph)) :
              /\ \A i \in NodeIdx(graph) : carto.nodes[perm[i] + 1] = graph.nodes[i + 1].point
              /\ EdgeTuples(carto.edges) =
                    {<<perm[t[1]], perm[t[2]], t[3], t[4]>> : t \in EdgeTuples(graph.edges)}

\* a file read back whose nodes come in another order than in the graph written
C6_Witness ==
    /\ stage = "opened"
    /\ carto.ok
    /\ Len(carto.nodes) = 3
    /\ Len(carto.edges) >= 3
    /\ \E i \in 1..Len(carto.nodes) : carto.nodes[i] # graph.nodes[i].point
    /\ \E e \in 1..Len(carto.edges) : carto.edges[e].source > carto.edges[e].target

(***************************************************************************)
(* Sampler (cartograph/sampler.rs).  An item is its hash and its priority; *)
(* sample() and sample_with_priority() both read the stream being fed.     *)
(***************************************************************************)
\* bound on the length of the stream
MaxStream == 3

\* bound on max_num
MaxK == 2

\* the width of hash_mask, a u64
U64Bits == 64

\* the hash values of the items, as u64
Hashes == {0, 1, 2, 3}

\* the values of get_priority
Priorities == {-1, 0, 1}

Items == [hash : Hashes, priority : Priorities]

\* std::i32::MIN
I32Min == (-I32Max) - 1

\* hash & hash_mask == 0 for the mask of `bits` ones; the hashes are below 2^30
MaskedOut(hash, bits) == IF bits >= 30 THEN hash = 0 ELSE hash % Pow2(bits) = 0

\* Sampler::new; hash_mask is kept as the number of its one bits, and hung
\* tells that a loop of the sampler does not end
SamplerNew(max_num) ==
    [result |-> <<>>, max_num |-> max_num, bits |-> 0, len |-> 0, hung |-> FALSE]

\* (hash_mask << 1) + 1: one more bit, all 64 bits staying all 64 bits
NextBits(bits) == Min(bits + 1, U64Bits)

\* one turn of either loop: the mask gets one more bit and the list is retained
RaiseMask(sampler) ==
    [sampler EXCEPT !.bits = NextBits(@),
                    !.result = SelectSeq(@, LAMBDA el : MaskedOut(el.hash, NextBits(sampler.bits)))]

RECURSIVE MakeSpace(_)
\* the loop of update, while result.len() == max_num; with the mask at all ones
\* and the list still full it goes on for ever
MakeSpace(sampler) ==
    IF Len(sampler.result) # sampler.max_num THEN sampler
    ELSE IF sampler.bits = U64Bits THEN [sampler EXCEPT !.hung = TRUE]
    ELSE MakeSpace(RaiseMask(sampler))

\* update that appends without making space
update_unbounded(sampler, el) ==
    IF MaskedOut(el.hash, sampler.bits)
    THEN [sampler EXCEPT !.result = Append(@, el), !.len = @ + 1]
    ELSE [sampler EXCEPT !.len = @ + 1]

\* update that pushes the element without checking it against the raised mask
update_no_recheck(sampler, el) ==
    IF MaskedOut(el.hash, sampler.bits)
    THEN LET spaced == MakeSpace(sampler)
         IN IF spaced.hung THEN spaced
            ELSE [spaced EXCEPT !.result = Append(@, el), !.len = @ + 1]
    ELSE [sampler EXCEPT !.len = @ + 1]

\* Sampler::update
update(sampler, el) ==
    IF MaskedOut(el.hash, sampler.bits)
    THEN LET spaced == MakeSpace(sampler)
         IN IF spaced.hung THEN spaced
            ELSE IF MaskedOut(el.hash, spaced.bits)
            THEN [spaced EXCEPT !.result = Append(@, el), !.len = @ + 1]
            ELSE [spaced EXCEPT !.len = @ + 1]
    ELSE [sampler EXCEPT !.len = @ + 1]

RECURSIVE Thin(_)
\* the loop of resample, while result.len() > max_num
Thin(sampler) ==
    IF Len(sampler.result) <= sampler.max_num THEN sampler
    ELSE IF sampler.bits = U64Bits THEN [sampler EXCEPT !.hung = TRUE]
    ELSE Thin(RaiseMask(sampler))

RECURSIVE resample_at_max(_, _)
\* resample that also thins a list of exactly the new maximum
resample_at_max(sampler, new_max_num) ==
    IF Len(sampler.result) < new_max_num THEN [sampler EXCEPT !.max_num = new_max_num]
    ELSE IF sampler.bits = U64Bits THEN [sampler EXCEPT !.max_num = new_max_num, !.hung = TRUE]
    ELSE resample_at_max(RaiseMask(sampler), new_max_num)

\* Sampler::resample; its assert holds, new_max_num never exceeds max_num here
resample(sampler, new_max_num) == Thin([sampler EXCEPT !.max_num = new_max_num])

\* Sampler::finish
finish(sampler) == sampler.result

RECURSIVE SampleFrom(_, _, _)
SampleFrom(sampler, items, i) ==
    IF i > Len(items) \/ sampler.hung THEN sampler
    ELSE SampleFrom(update(sampler, items[i]), items, i + 1)

\* Sample::sample on a whole stream: the sampler before finish
sample(items, max_num) == SampleFrom(SamplerNew(max_num), items, 1)

\* one turn of the loop of sample_with_priority over the stream
priority_step(samplers, min_priority, max_num, el) ==
    IF el.priority < min_priority
    THEN [samplers |-> samplers, min_priority |-> min_priority]
    ELSE LET entry == IF el.priority \in DOMAIN samplers THEN samplers[el.priority]
                      ELSE SamplerNew(max_num)
             sampler == update(entry, el)
         IN [samplers |-> (el.priority :> sampler) @@ samplers,
             min_priority |-> IF ~sampler.hung /\ sampler.len >= max_num
                              THEN el.priority ELSE min_priority]

\* the strata of collect in ascending order of priority
NextStratumAscending(left) == CHOOSE p \in left : \A q \in left : p <= q

\* samplers.into_iter().rev(): the greatest priority first
NextStratum(left) == CHOOSE p \in left : \A q \in left : p >= q

RECURSIVE CollectFrom(_, _, _, _, _)
\* the second loop of sample_with_priority: [ok, result]
CollectFrom(samplers, left, max_num, total_els, result) ==
    IF left = {} THEN [ok |-> TRUE, result |-> result]
    ELSE LET priority == NextStratum(left)
             sampler == resample(samplers[priority], max_num - total_els)
             total == total_els + sampler.len
             collected == (priority :> finish(sampler)) @@ result
         IN IF sampler.hung THEN [ok |-> FALSE, result |-> result]
            ELSE IF total >= max_num THEN [ok |-> TRUE, result |-> collected]
            ELSE CollectFrom(samplers, left \ {priority}, max_num, total, collected)

StrataHung == \E p \in DOMAIN strata : strata[p].hung

SMInit ==
    /\ smK \in 0..MaxK
    /\ stream = <<>>
    /\ plain = SamplerNew(smK)
    /\ strata = <<>>
    /\ minPrio = I32Min
    /\ smPhase = "feeding"
    /\ smResult = <<>>
    /\ smByPrio = [ok |-> TRUE, result |-> <<>>]
    /\ jb = <<>> /\ jbCalls = <<>>
    /\ cells = <<>> /\ workers = <<>> /\ atCalls = <<>>
    /\ nb = <<>> /\ nodes = <<>> /\ pushed = <<>>
    /\ graph = <<>> /\ arcs = {} /\ built = <<>> /\ stage = "idle" /\ file = <<>> /\ carto = <<>>
    /\ roads = <<>> /\ cand = 0 /\ query = <<>> /\ singles = <<>> /\ multi = <<>>
    /\ rtPhase = "idle"
    /\ parts = <<>> /\ whole = <<>> /\ acc = <<>> /\ pending = {}
    /\ nbs = <<>> /\ fed = <<>> /\ cur = 0 /\ listed = <<>> /\ assembled = <<>>
    /\ osmWay = <<>> /\ store = <<>> /\ wayArcs = <<>> /\ wyPhase = "idle"
    /\ disk = <<>> /\ opened = <<>> /\ rdPhase = "idle"
    /\ profile = "none" /\ score = <<>> /\ exact = <<>> /\ hops = 0 /\ coPhase = "idle"
    /\ series = <<>> /\ builds = <<>> /\ encoded = <<>> /\ decoded = <<>> /\ dlPhase = "idle"
    /\ waysBlobs = <<>> /\ taskQ = <<>> /\ held = <<>> /\ resultQ = <<>> /\ pgraph = <<>>
    /\ plPhase = "idle"
    /\ orderA = <<>> /\ orderB = <<>> /\ runA = <<>> /\ runB = <<>>
    /\ tablesA = <<>> /\ tablesB = <<>> /\ odStage = "idle"
    /\ ob = <<>> /\ oldNodes = <<>>
    /\ osmFile = <<>> /\ classified = <<>> /\ clPhase = "idle"
    /\ scBlobs = <<>> /\ scThreads = 0 /\ scTaken = 0 /\ scWorkers = <<>> /\ scStop = 0
    /\ scResults = <<>> /\ scMain = <<>> /\ scPhase = "idle"
    /\ nfFile = <<>> /\ nfJunctions = <<>> /\ nfQueue = <<>> /\ nfWorkers = <<>>
    /\ nfNodes = <<>> /\ nfPhase = "idle"

\* the iterator yields an item: one turn of the loop of sample() and one of
\* the first loop of sample_with_priority(); a call whose sampler hangs gets no
\* further item
SMFeed ==
    \E el \in Items :
        /\ smPhase = "feeding"
        /\ Len(stream) < MaxStream
        /\ stream' = Append(stream, el)
        /\ plain' = IF plain.hung THEN plain ELSE update(plain, el)
        /\ LET step == priority_step(strata, minPrio, smK, el)
           IN IF StrataHung THEN UNCHANGED <<strata, minPrio>>
              ELSE strata' = step.samplers /\ minPrio' = step.min_priority
        /\ UNCHANGED <<smK, smPhase, smResult, smByPrio>>
        /\ SMOnly

\* the iterator ends: sample() finishes its sampler, sample_with_priority()
\* collects from its samplers
SMFinish ==
    /\ smPhase = "feeding"
    /\ smPhase' = "done"
    /\ smResult' = IF plain.hung THEN <<>> ELSE finish(plain)
    /\ smByPrio' = IF StrataHung THEN [ok |-> FALSE, result |-> <<>>]
                   ELSE CollectFrom(strata, DOMAIN strata, smK, 0, <<>>)
    /\ UNCHANGED <<smK, stream, plain, strata, minPrio>>
    /\ SMOnly

SMNext ==
    \/ SMFeed
    \/ SMFinish

SpecSampler == SMInit /\ [][SMNext]_vars

\* how often x occurs in the sequence s
Count(s, x) == Cardinality({i \in 1..Len(s) : s[i] = x})

\* sample() returned
SampleDone == smPhase = "done" /\ ~plain.hung

\* sample_with_priority() returned
PriorityDone == smPhase = "done" /\ smByPrio.ok

\* the permutations of the stream
Reorderings ==
    {[i \in 1..Len(stream) |-> stream[f[i]]] :
        f \in {g \in [1..Len(stream) -> 1..Len(stream)] :
                 \A i \in 1..Len(stream), j \in 1..Len(stream) : g[i] = g[j] => i = j}}

\* C7: sample is stable: for every finite stream S, every permutation of S and
\* every K, sample(K) over the permuted stream returns the same set of items as
\* sample(K) over S, whatever hash values the items have.
C7_Stable ==
    SampleDone =>
        \A other \in Reorderings :
            ~sample(other, smK).hung => Range(finish(sample(other, smK))) = Range(smResult)

\* the places of the lists sample_with_priority() returned
Returned ==
    UNION {{<<p, i>> : i \in 1..Len(smByPrio.result[p])} : p \in DOMAIN smByPrio.result}

\* C8: sample(K) returns at most K items and sample_with_priority(K, f) returns
\* at most K items in total over all strata; every returned item is an item of
\* the stream, returned at most as often as it occurs there, and
\* sample_with_priority lists it under its own priority.
C8_WithinBudget ==
    /\ SampleDone =>
        /\ Len(smResult) <= smK
        /\ \A x \in Range(smResult) : Count(smResult, x) <= Count(stream, x)
    /\ PriorityDone =>
        /\ Cardinality(Returned) <= smK
        /\ \A p \in DOMAIN smByPrio.result :
              \A x \in Range(smByPrio.result[p]) :
                  /\ x.priority = p
                  /\ Count(smByPrio.result[p], x) <= Count(stream, x)

\* both calls returned a full budget of items and left others out
C8_Witness ==
    /\ SampleDone /\ PriorityDone
    /\ smK = 2
    /\ Len(stream) = 3
    /\ Len(smResult) = 2
    /\ Cardinality(DOMAIN smByPrio.result) = 2
    /\ \A p \in DOMAIN smByPrio.result : Len(smByPrio.result[p]) = 1

\* C9: if the stream holds at most K items in total, sample(K) returns all of
\* them and sample_with_priority(K, f) returns all of them, each under its
\* priority: nothing is dropped when the input fits the budget.
C9_AllWhenFits ==
    (smPhase = "done" /\ Len(stream) <= smK) =>
        /\ SampleDone
        /\ PriorityDone
        /\ \A x \in Items :
            /\ Count(smResult, x) = Count(stream, x)
            /\ Count(stream, x) > 0 =>
                /\ x.priority \in DOMAIN smByPrio.result
                /\ Count(smByPrio.result[x.priority], x) = Count(stream, x)

\* a stream of exactly K items over two priorities
C9_Witness ==
    /\ SampleDone /\ PriorityDone
    /\ smK = 2
    /\ Len(stream) = 2
    /\ stream[1].priority # stream[2].priority
    /\ Len(smResult) = 2

\* C10: if the stream holds at least K items whose priority is strictly greater
\* than k, sample_with_priority(K, f) returns no item of priority k or lower,
\* whatever the arrival order; so when the highest priority present has at least
\* K items, only items of that priority are returned.
C10_HigherPrioritiesFirst ==
    PriorityDone =>
        \A k \in Priorities :
            Cardinality({i \in 1..Len(stream) : stream[i].priority > k}) >= smK =>
                \A p \in DOMAIN smByPrio.result : p <= k => smByPrio.result[p] = <<>>

\* K items above the lowest priority, spread over two strata, and an item of
\* the lowest priority that came first
C10_Witness ==
    /\ PriorityDone
    /\ smK = 2
    /\ Len(stream) = 3
    /\ stream[1].priority = -1
    /\ stream[2].priority = 0
    /\ stream[3].priority = 1
    /\ DOMAIN smByPrio.result = {0, 1}
    /\ Len(smByPrio.result[0]) = 1

\* the items of the stream whose priority is p, in their order of arrival
StratumOf(p) == SelectSeq(stream, LAMBDA el : el.priority = p)

\* how many items of the stream have a priority above p
CountAbove(p) == Cardinality({i \in 1..Len(stream) : stream[i].priority > p})

\* C26: when the strata of priority above p hold t < K items in total,
\* sample_with_priority(K, f) returns all t of them and returns for stratum p
\* the very items that sample(K - t) returns on the items of priority p alone.
C26_StratumAsPlainSample ==
    PriorityDone =>
        \A p \in Priorities :
            LET alone == sample(StratumOf(p), smK - CountAbove(p))
            IN (CountAbove(p) < smK /\ StratumOf(p) # <<>> /\ ~alone.hung) =>
                /\ \A q \in Priorities :
                      (q > p /\ StratumOf(q) # <<>>) =>
                          /\ q \in DOMAIN smByPrio.result
                          /\ \A x \in Range(StratumOf(q)) :
                                Count(smByPrio.result[q], x) = Count(stream, x)
                /\ p \in DOMAIN smByPrio.result
                /\ Range(smByPrio.result[p]) = Range(finish(alone))

\* C38: sample(K) and sample_with_priority(K, f) terminate on every finite
\* stream for every K >= 0, K = 0 with a non-empty stream included: the loop of
\* update that raises the mask while the kept list is full always exits, so no
\* sampler is ever left in a loop that does not end.
C38_UpdateLoopExits == ~plain.hung /\ ~StrataHung

\* the items bucket p has seen: the items of its priority that came before
\* min_priority rose above it
SeenBy(p) == SubSeq(StratumOf(p), 1, strata[p].len)

\* the kept list is the multiset of the seen items that pass the mask, and holds
\* at most max_num items
BucketSound(sampler, seen) ==
    /\ \A x \in Items :
          Count(sampler.result, x)
              = Count(SelectSeq(seen, LAMBDA el : MaskedOut(el.hash, sampler.bits)), x)
    /\ Len(sampler.result) <= sampler.max_num
    /\ sampler.bits \in 0..U64Bits

\* resample of a bucket to any smaller maximum keeps it sound and its mask grown
ResampleSound(sampler, seen) ==
    \A new_max_num \in 0..sampler.max_num :
        LET thinned == resample(sampler, new_max_num)
        IN ~thinned.hung =>
              /\ BucketSound(thinned, seen)
              /\ thinned.max_num = new_max_num
              /\ thinned.bits >= sampler.bits

\* C39: after every update and every resample of a bucket, its kept list is
\* exactly the multiset of the items the bucket has seen so far whose hash
\* satisfies hash & M == 0 for the current mask M, M has the form 2^j - 1 (the
\* number j of its one bits is what the bucket holds) and never decreases, and
\* the kept list holds at most the bucket's current maximum.
C39_KeptIsMaskedSeen ==
    [][/\ ~plain'.hung =>
            /\ BucketSound(plain', stream')
            /\ ResampleSound(plain', stream')
            /\ plain'.bits >= plain.bits
       /\ ~StrataHung' =>
            \A p \in DOMAIN strata' :
                /\ BucketSound(strata'[p], SeenBy(p)')
                /\ ResampleSound(strata'[p], SeenBy(p)')
                /\ p \in DOMAIN strata => strata'[p].bits >= strata[p].bits]_vars

\* an update raised the mask of a bucket and dropped an item it had kept, and a
\* resample of that bucket to a smaller maximum raises the mask again
C39_Witness ==
    /\ smPhase = "feeding"
    /\ ~plain.hung
    /\ plain.bits > 0
    /\ plain.result # <<>>
    /\ Len(plain.result) < Len(stream)
    /\ \E new_max_num \in 1..plain.max_num :
          /\ ~resample(plain, new_max_num).hung
          /\ resample(plain, new_max_num).bits > plain.bits
          /\ resample(plain, new_max_num).result # <<>>

(***************************************************************************)
(* Routing (cartograph.rs): shortest_path over petgraph's astar and        *)
(* shortest_path_multi, on the graph of an opened artifact.                *)
(***************************************************************************)
\* bound on the number of targets of a query
MaxTargets == 2

\* the nodes of the map, in the (lat, lon) order of the artifact
RoadNodes ==
    <<[lat |-> 0, lon |-> 0], [lat |-> 0, lon |-> 2], [lat |-> 0, lon |-> 3],
      [lat |-> 0, lon |-> 4], [lat |-> 0, lon |-> 10]>>

\* the edges an artifact over these nodes may hold, in its (source, target)
\* order; no distance is below the distance between the two ends
RoadEdges ==
    <<[source |-> 0, target |-> 1, distance |-> 20, road_level |-> 2],
      [source |-> 0, target |-> 3, distance |-> 60, road_level |-> 2],
      [source |-> 1, target |-> 2, distance |-> 10, road_level |-> 2],
      [source |-> 2, target |-> 3, distance |-> 10, road_level |-> 2],
      [source |-> 3, target |-> 4, distance |-> 60, road_level |-> 2],
      [source |-> 4, target |-> 0, distance |-> 100, road_level |-> 2]>>

\* edge_pos of the projected points of the queries, in halves of the edge
EdgePositions == {1}

\* a ProjectedPoint on edge e (0-based, as EdgeIndex)
ProjectedPoints(g) == [edge : 0..(Len(g.edges) - 1), edge_pos : EdgePositions]

\* graph.edge_endpoints(edge): <<source, target>>
edge_endpoints(g, edge) == <<g.edges[edge + 1].source, g.edges[edge + 1].target>>

\* (distance as f32 * (1. - from.edge_pos)) as u32
ExtraStartCost(g, from) == (g.edges[from.edge + 1].distance * (2 - from.edge_pos)) \div 2

\* (distance as f32 * to.edge_pos) as u32
ExtraEndCost(g, to) == (g.edges[to.edge + 1].distance * to.edge_pos) \div 2

\* the heuristic: the least haversine distance as u32 from the node to one of
\* the end nodes; shortest_path has one end node
estimate_cost(g, ends, node) ==
    LET costs == {haversine_distance(g.nodes[node + 1], g.nodes[ends[i] + 1]) : i \in 1..Len(ends)}
    IN CHOOSE c \in costs : \A d \in costs : c <= d

\* graph.edges(node): the outgoing edges, the one added last first
OutEdges(g, node) ==
    LET out == SelectSeq([e \in 1..Len(g.edges) |-> e], LAMBDA e : g.edges[e].source = node)
    IN [i \in 1..Len(out) |-> out[Len(out) + 1 - i]]

RECURSIVE Relax(_, _, _, _, _)
\* the loop over the edges of a node just visited, the same in astar and in
\* shortest_path_multi: search is [visited, scores, visit_next]
Relax(g, search, node_score, out, ends) ==
    IF out = <<>> THEN search
    ELSE LET edge == g.edges[Head(out)]
             next == edge.target
             new_score == node_score + edge.distance
             next_score == IF next \in DOMAIN search.scores /\ search.scores[next] <= new_score
                           THEN search.scores[next] ELSE new_score
         IN IF next \in search.visited THEN Relax(g, search, node_score, Tail(out), ends)
            ELSE Relax(g,
                       [search EXCEPT
                          !.scores = (next :> next_score) @@ @,
                          !.visit_next = @ \cup {<<next_score + estimate_cost(g, ends, next), next>>}],
                       node_score, Tail(out), ends)

\* the search before its first pop
SearchNew(g, start, ends) ==
    [visited |-> {}, scores |-> (start :> 0),
     visit_next |-> {<<estimate_cost(g, ends, start), start>>}]

RECURSIVE AstarFrom(_, _, _)
\* petgraph astar from a search state: every result the heap's order among
\* entries of equal score allows, each as [found, cost]
AstarFrom(g, search, goal) ==
    IF search.visit_next = {} THEN {[found |-> FALSE, cost |-> 0]}
    ELSE UNION {
        LET node == entry[2]
            popped == [search EXCEPT !.visit_next = @ \ {entry}]
        IN IF node = goal THEN {[found |-> TRUE, cost |-> search.scores[node]]}
           ELSE IF node \in search.visited THEN AstarFrom(g, popped, goal)
           ELSE AstarFrom(g, Relax(g, [popped EXCEPT !.visited = @ \cup {node}],
                                   search.scores[node], OutEdges(g, node), <<goal>>), goal)
        : entry \in {e \in search.visit_next : \A f \in search.visit_next : e[1] <= f[1]}}

\* Cartograph::shortest_path: the results it may give, [status, distance];
\* unwrap panics when astar finds no path
shortest_path(g, from, to) ==
    LET start_node == edge_endpoints(g, from.edge)[2]
        end_node == edge_endpoints(g, to.edge)[1]
    IN {IF found.found
        THEN [status |-> "ok",
              distance |-> found.cost + (ExtraStartCost(g, from) + ExtraEndCost(g, to))]
        ELSE [status |-> "panic", distance |-> 0]
        : found \in AstarFrom(g, SearchNew(g, start_node, <<end_node>>), end_node)}

RECURSIVE MultiFrom(_, _, _, _, _)
\* the while loop of shortest_path_multi; remaining_ends holds [i, extra_end_cost, end_node]
MultiFrom(g, search, remaining_ends, final_costs, extra_start_cost) ==
    IF search.visit_next = {} THEN final_costs
    ELSE LET entry == CHOOSE e \in search.visit_next : \A f \in search.visit_next :
                          e[1] < f[1] \/ (e[1] = f[1] /\ e[2] <= f[2])
             node == entry[2]
             popped == [search EXCEPT !.visit_next = @ \ {entry}]
             reached == SelectSeq(remaining_ends, LAMBDA end : end.end_node = node)
             remaining == SelectSeq(remaining_ends, LAMBDA end : end.end_node # node)
             costs == [i \in 1..Len(final_costs) |->
                         IF \E k \in 1..Len(reached) : reached[k].i = i
                         THEN extra_start_cost + search.scores[node]
                              + (CHOOSE end \in Range(reached) : end.i = i).extra_end_cost
                         ELSE final_costs[i]]
         IN IF reached # <<>> /\ remaining = <<>> THEN costs
            ELSE IF node \in search.visited
            THEN MultiFrom(g, popped, remaining, costs, extra_start_cost)
            ELSE MultiFrom(g,
                           Relax(g, [popped EXCEPT !.visited = @ \cup {node}], search.scores[node],
                                 OutEdges(g, node), [k \in 1..Len(remaining) |-> remaining[k].end_node]),
                           remaining, costs, extra_start_cost)

\* Cartograph::shortest_path_multi: [status, costs]; with no target at all
\* estimate_cost unwraps the minimum of nothing
shortest_path_multi(g, from, to) ==
    LET start_node == edge_endpoints(g, from.edge)[2]
        remaining_ends == [i \in 1..Len(to) |->
                             [i |-> i, extra_end_cost |-> ExtraEndCost(g, to[i]),
                              end_node |-> edge_endpoints(g, to[i].edge)[1]]]
    IN IF to = <<>> THEN [status |-> "panic", costs |-> <<>>]
       ELSE [status |-> "ok",
             costs |-> MultiFrom(g,
                           SearchNew(g, start_node, [k \in 1..Len(to) |-> remaining_ends[k].end_node]),
                           remaining_ends, [i \in 1..Len(to) |-> 0], ExtraStartCost(g, from))]

RTInit ==
    /\ roads = [nodes |-> RoadNodes, edges |-> <<>>]
    /\ cand = 0
    /\ query = <<>>
    /\ singles = <<>>
    /\ multi = <<>>
    /\ rtPhase = "load"
    /\ jb = <<>> /\ jbCalls = <<>>
    /\ cells = <<>> /\ workers = <<>> /\ atCalls = <<>>
    /\ nb = <<>> /\ nodes = <<>> /\ pushed = <<>>
    /\ graph = <<>> /\ arcs = {} /\ built = <<>> /\ stage = "idle" /\ file = <<>> /\ carto = <<>>
    /\ smK = 0 /\ stream = <<>> /\ plain = <<>> /\ strata = <<>> /\ minPrio = 0
    /\ smPhase = "idle" /\ smResult = <<>> /\ smByPrio = <<>>
    /\ parts = <<>> /\ whole = <<>> /\ acc = <<>> /\ pending = {}
    /\ nbs = <<>> /\ fed = <<>> /\ cur = 0 /\ listed = <<>> /\ assembled = <<>>
    /\ osmWay = <<>> /\ store = <<>> /\ wayArcs = <<>> /\ wyPhase = "idle"
    /\ disk = <<>> /\ opened = <<>> /\ rdPhase = "idle"
    /\ profile = "none" /\ score = <<>> /\ exact = <<>> /\ hops = 0 /\ coPhase = "idle"
    /\ series = <<>> /\ builds = <<>> /\ encoded = <<>> /\ decoded = <<>> /\ dlPhase = "idle"
    /\ waysBlobs = <<>> /\ taskQ = <<>> /\ held = <<>> /\ resultQ = <<>> /\ pgraph = <<>>
    /\ plPhase = "idle"
    /\ orderA = <<>> /\ orderB = <<>> /\ runA = <<>> /\ runB = <<>>
    /\ tablesA = <<>> /\ tablesB = <<>> /\ odStage = "idle"
    /\ ob = <<>> /\ oldNodes = <<>>
    /\ osmFile = <<>> /\ classified = <<>> /\ clPhase = "idle"
    /\ scBlobs = <<>> /\ scThreads = 0 /\ scTaken = 0 /\ scWorkers = <<>> /\ scStop = 0
    /\ scResults = <<>> /\ scMain = <<>> /\ scPhase = "idle"
    /\ nfFile = <<>> /\ nfJunctions = <<>> /\ nfQueue = <<>> /\ nfWorkers = <<>>
    /\ nfNodes = <<>> /\ nfPhase = "idle"

\* Cartograph::open adds the next edge of the artifact; an edge of the map is
\* in the artifact or it is not
RTAddEdge ==
    \E present \in BOOLEAN :
        /\ rtPhase = "load"
        /\ cand < Len(RoadEdges)
        /\ cand' = cand + 1
        /\ roads' = IF present THEN [roads EXCEPT !.edges = Append(@, RoadEdges[cand + 1])]
                    ELSE roads
        /\ UNCHANGED <<query, singles, multi, rtPhase>>
        /\ RTOnly

\* project(): a query is a projected point to start from and a list of
\* projected points to reach
RTProject ==
    \E from \in ProjectedPoints(roads), n \in 0..MaxTargets :
        \E to \in [1..n -> ProjectedPoints(roads)] :
            /\ rtPhase = "load"
            /\ cand = Len(RoadEdges)
            /\ query' = [from |-> from, to |-> to]
            /\ rtPhase' = "query"
            /\ UNCHANGED <<roads, cand, singles, multi>>
            /\ RTOnly

\* shortest_path for the next target of the list
RTShortestPath ==
    /\ rtPhase = "query"
    /\ Len(singles) < Len(query.to)
    /\ \E result \in shortest_path(roads, query.from, query.to[Len(singles) + 1]) :
          singles' = Append(singles, result)
    /\ UNCHANGED <<roads, cand, query, multi, rtPhase>>
    /\ RTOnly

\* shortest_path_multi for the whole list
RTShortestPathMulti ==
    /\ rtPhase = "query"
    /\ Len(singles) = Len(query.to)
    /\ multi' = shortest_path_multi(roads, query.from, query.to)
    /\ rtPhase' = "done"
    /\ UNCHANGED <<roads, cand, query, singles>>
    /\ RTOnly

RTNext ==
    \/ RTAddEdge
    \/ RTProject
    \/ RTShortestPath
    \/ RTShortestPathMulti

SpecRoute == RTInit /\ [][RTNext]_vars

\* C11: for every graph, every source projection and every list of target
\* projections, shortest_path_multi returns for each target, in input order, the
\* distance shortest_path returns for that source and that target.
C11_MultiMatchesSingle ==
    rtPhase = "done" =>
        \A i \in 1..Len(query.to) :
            singles[i].status = "ok" =>
                multi.status = "ok" /\ multi.costs[i] = singles[i].distance

\* target i of the query has a directed path from the start node to its end node
TargetReachable(i) ==
    edge_endpoints(roads, query.to[i].edge)[1]
        \in ReachFrom(roads, {edge_endpoints(roads, query.from.edge)[2]})

\* C17: a shortest-path query whose start node has no directed path to the end
\* node is surfaced as absence of a result: shortest_path returns no path, neither
\* a distance nor a crash, and shortest_path_multi reports no numeric distance
\* for a target it never reached.
C17_AbsenceOfResult ==
    rtPhase = "done" =>
        \A i \in 1..Len(query.to) :
            ~TargetReachable(i) =>
                /\ singles[i].status = "none"
                /\ multi.status = "ok"
                /\ multi.costs[i] \notin Nat

(***************************************************************************)
(* Per-thread JunctionsBuilders and their merge                            *)
(* (generator/data_types/junction.rs, parser/junction.rs)                  *)
(***************************************************************************)
\* num_threads: the worker threads, each with a builder of its own
NumThreads == 2

\* bound on the number of road ways the blobs hold
MaxWays == 3

Threads == 1..NumThreads

\* the node offsets of the ways a blob may hold: no node, one node, nodes of both
\* bytes of the bitmaps, a node twice inside a way
Ways == {<<>>, <<1>>, <<0, 1, 2, 8>>, <<8, 2, 0>>, <<3, 0, 1, 3>>, <<3, 2, 2, 3>>}

RECURSIVE PushRefs(_, _, _)
PushRefs(b, node_ids, i) ==
    IF i >= Len(node_ids) THEN b
    ELSE LET marked == IF i = 0 \/ i = Len(node_ids) - 1
                       THEN push_junction(b, node_ids[i + 1])
                       ELSE push_internal(b, node_ids[i + 1])
         IN PushRefs(marked, node_ids, i + 1)

push_way(b, way) ==
    LET marked == PushRefs(b, way, 0)
    IN [marked EXCEPT !.ways_len = @ + 1]

\* u8 operators, bit by bit
ByteOr(a, b) == SumSeq([k \in 1..8 |-> Pow2(k - 1) * Max(BitOf(a, k - 1), BitOf(b, k - 1))])

ByteAnd(a, b) == SumSeq([k \in 1..8 |-> Pow2(k - 1) * Min(BitOf(a, k - 1), BitOf(b, k - 1))])

ByteNot(a) == 255 - a

merge_no_promotion(self, other) ==
    LET jun == [i \in DOMAIN self.junctions |->
                    ByteOr(self.junctions[i], other.junctions[i])]
        int == [i \in DOMAIN self.internals |->
                    ByteAnd(ByteNot(jun[i]), ByteOr(self.internals[i], other.internals[i]))]
    IN [junctions |-> jun, internals |-> int, ways_len |-> self.ways_len + other.ways_len]

\* merge where the junctions of self give way to those of other
merge_takes_other(self, other) ==
    LET jun == [i \in DOMAIN self.junctions |->
                    ByteOr(other.junctions[i],
                           ByteAnd(self.internals[i], other.internals[i]))]
        int == [i \in DOMAIN self.internals |->
                    ByteAnd(ByteNot(jun[i]), ByteOr(self.internals[i], other.internals[i]))]
    IN [junctions |-> jun, internals |-> int, ways_len |-> self.ways_len + other.ways_len]

merge(self, other) ==
    LET jun == [i \in DOMAIN self.junctions |->
                    ByteOr(ByteOr(self.junctions[i], other.junctions[i]),
                           ByteAnd(self.internals[i], other.internals[i]))]
        int == [i \in DOMAIN self.internals |->
                    ByteAnd(ByteNot(jun[i]), ByteOr(self.internals[i], other.internals[i]))]
    IN [junctions |-> jun, internals |-> int, ways_len |-> self.ways_len + other.ways_len]

MGInit ==
    /\ parts = [t \in Threads |-> JBNew]
    /\ whole = JBNew
    /\ acc = JBNew
    /\ pending = Threads
    /\ jb = <<>> /\ jbCalls = <<>>
    /\ cells = <<>> /\ workers = <<>> /\ atCalls = <<>>
    /\ nb = <<>> /\ nodes = <<>> /\ pushed = <<>>
    /\ graph = <<>> /\ arcs = {} /\ built = <<>> /\ stage = "idle" /\ file = <<>> /\ carto = <<>>
    /\ smK = 0 /\ stream = <<>> /\ plain = <<>> /\ strata = <<>> /\ minPrio = 0
    /\ smPhase = "idle" /\ smResult = <<>> /\ smByPrio = <<>>
    /\ roads = <<>> /\ cand = 0 /\ query = <<>> /\ singles = <<>> /\ multi = <<>>
    /\ rtPhase = "idle"
    /\ nbs = <<>> /\ fed = <<>> /\ cur = 0 /\ listed = <<>> /\ assembled = <<>>
    /\ osmWay = <<>> /\ store = <<>> /\ wayArcs = <<>> /\ wyPhase = "idle"
    /\ disk = <<>> /\ opened = <<>> /\ rdPhase = "idle"
    /\ profile = "none" /\ score = <<>> /\ exact = <<>> /\ hops = 0 /\ coPhase = "idle"
    /\ series = <<>> /\ builds = <<>> /\ encoded = <<>> /\ decoded = <<>> /\ dlPhase = "idle"
    /\ waysBlobs = <<>> /\ taskQ = <<>> /\ held = <<>> /\ resultQ = <<>> /\ pgraph = <<>>
    /\ plPhase = "idle"
    /\ orderA = <<>> /\ orderB = <<>> /\ runA = <<>> /\ runB = <<>>
    /\ tablesA = <<>> /\ tablesB = <<>> /\ odStage = "idle"
    /\ ob = <<>> /\ oldNodes = <<>>
    /\ osmFile = <<>> /\ classified = <<>> /\ clPhase = "idle"
    /\ scBlobs = <<>> /\ scThreads = 0 /\ scTaken = 0 /\ scWorkers = <<>> /\ scStop = 0
    /\ scResults = <<>> /\ scMain = <<>> /\ scPhase = "idle"
    /\ nfFile = <<>> /\ nfJunctions = <<>> /\ nfQueue = <<>> /\ nfWorkers = <<>>
    /\ nfNodes = <<>> /\ nfPhase = "idle"

\* a thread takes a blob off the queue and pushes a road way of it into its builder
MGPushWay ==
    \E t \in Threads, way \in Ways :
        /\ pending = Threads
        /\ whole.ways_len < MaxWays
        /\ parts' = [parts EXCEPT ![t] = push_way(@, way)]
        /\ whole' = push_way(whole, way)
        /\ UNCHANGED <<acc, pending>>
        /\ MGOnly

\* the builder of one more thread is merged into the collecting builder
MGMerge ==
    \E t \in pending :
        /\ acc' = merge(acc, parts[t])
        /\ pending' = pending \ {t}
        /\ UNCHANGED <<parts, whole>>
        /\ MGOnly

MGNext == MGPushWay \/ MGMerge

SpecMerge == MGInit /\ [][MGNext]_vars

\* C12: once the builders of all threads are merged, every node has the state one
\* builder that got every way would give it, and the merged ways_len is the sum of
\* the threads' ways_len (the number of ways pushed), however the ways were split
\* among the threads and in whatever order the builders were merged.
C12_MergeMatchesOneBuilder ==
    pending = {} =>
        /\ \A n \in Offsets : JBState(acc, n) = JBState(whole, n)
        /\ acc.ways_len = SumSeq([t \in Threads |-> parts[t].ways_len])
        /\ acc.ways_len = whole.ways_len

\* all is merged; a node internal in two builders became a junction, a node internal
\* in one builder only stayed internal, and a junction of one builder prevailed over
\* the internal mark of another
C12_Witness ==
    /\ pending = {}
    /\ \E n, m, k \in Offsets, s, t \in Threads :
        /\ s # t
        /\ JBState(parts[s], n) = "Internal" /\ JBState(parts[t], n) = "Internal"
        /\ JBState(acc, n) = "Junction"
        /\ JBState(parts[s], m) = "Internal" /\ JBState(parts[t], m) = "Unused"
        /\ JBState(acc, m) = "Internal"
        /\ JBState(parts[s], k) = "Junction" /\ JBState(parts[t], k) = "Internal"
        /\ parts[s].ways_len > 0 /\ parts[t].ways_len > 0

(***************************************************************************)
(* Nodes::from_builders over the builders of several workers               *)
(* (generator2/data_types/node.rs)                                         *)
(***************************************************************************)
\* number of partial builders given to from_builders
NumBuilders == 2

Builders == 1..NumBuilders

\* the orders in which the builders can stand in the list
BuilderOrders == {p \in [Builders -> Builders] : Range(p) = Builders}

MNInit ==
    /\ nbs = [b \in Builders |-> with_opts(IdsPerPage, IdsPerPage * PagesPerSection)]
    /\ fed = <<>>
    /\ cur = 0
    /\ listed = <<>>
    /\ assembled = NoNodes
    /\ jb = <<>> /\ jbCalls = <<>>
    /\ cells = <<>> /\ workers = <<>> /\ atCalls = <<>>
    /\ nb = <<>> /\ nodes = <<>> /\ pushed = <<>>
    /\ graph = <<>> /\ arcs = {} /\ built = <<>> /\ stage = "idle" /\ file = <<>> /\ carto = <<>>
    /\ smK = 0 /\ stream = <<>> /\ plain = <<>> /\ strata = <<>> /\ minPrio = 0
    /\ smPhase = "idle" /\ smResult = <<>> /\ smByPrio = <<>>
    /\ roads = <<>> /\ cand = 0 /\ query = <<>> /\ singles = <<>> /\ multi = <<>>
    /\ rtPhase = "idle"
    /\ parts = <<>> /\ whole = <<>> /\ acc = <<>> /\ pending = {}
    /\ osmWay = <<>> /\ store = <<>> /\ wayArcs = <<>> /\ wyPhase = "idle"
    /\ disk = <<>> /\ opened = <<>> /\ rdPhase = "idle"
    /\ profile = "none" /\ score = <<>> /\ exact = <<>> /\ hops = 0 /\ coPhase = "idle"
    /\ series = <<>> /\ builds = <<>> /\ encoded = <<>> /\ decoded = <<>> /\ dlPhase = "idle"
    /\ waysBlobs = <<>> /\ taskQ = <<>> /\ held = <<>> /\ resultQ = <<>> /\ pgraph = <<>>
    /\ plPhase = "idle"
    /\ orderA = <<>> /\ orderB = <<>> /\ runA = <<>> /\ runB = <<>>
    /\ tablesA = <<>> /\ tablesB = <<>> /\ odStage = "idle"
    /\ ob = <<>> /\ oldNodes = <<>>
    /\ osmFile = <<>> /\ classified = <<>> /\ clPhase = "idle"
    /\ scBlobs = <<>> /\ scThreads = 0 /\ scTaken = 0 /\ scWorkers = <<>> /\ scStop = 0
    /\ scResults = <<>> /\ scMain = <<>> /\ scPhase = "idle"
    /\ nfFile = <<>> /\ nfJunctions = <<>> /\ nfQueue = <<>> /\ nfWorkers = <<>>
    /\ nfNodes = <<>> /\ nfPhase = "idle"

\* the next node of the file goes to the builder that holds the current block, or
\* starts a block in any builder; the ids of the file ascend
MNPush ==
    \E b \in Builders, id \in NodeIds, barrier \in BOOLEAN :
        /\ assembled = NoNodes
        /\ Len(fed) < MaxPush
        /\ cur \in {0, b}
        /\ fed # <<>> => id > fed[Len(fed)].id
        /\ LET node == [id |-> id, point |-> <<0, 0>>, barrier |-> barrier]
           IN /\ nbs' = [nbs EXCEPT ![b] = builder_push(@, node)]
              /\ fed' = Append(fed, node)
        /\ cur' = b
        /\ UNCHANGED <<listed, assembled>>
        /\ MNOnly

\* the block ends: finish_block on the builder that got it
MNFinishBlock ==
    /\ assembled = NoNodes
    /\ cur # 0
    /\ nbs' = [nbs EXCEPT ![cur] = finish_block(@)]
    /\ cur' = 0
    /\ UNCHANGED <<fed, listed, assembled>>
    /\ MNOnly

\* from_builders on the builders, listed in any order
MNBuild ==
    \E p \in BuilderOrders :
        /\ assembled = NoNodes
        /\ cur = 0
        /\ listed' = [i \in Builders |-> p[i]]
        /\ assembled' = from_builders([i \in Builders |-> nbs[p[i]]])
        /\ UNCHANGED <<nbs, fed, cur>>
        /\ MNOnly

MNNext == MNPush \/ MNFinishBlock \/ MNBuild

SpecMultiNodes == MNInit /\ [][MNNext]_vars

\* C13: Nodes built from several builders, each fed whole blocks of ascending ids
\* closed by finish_block, the blocks covering disjoint ranges, gives every id its
\* rank among all the ids fed, whichever builder got which block and in whatever
\* order the builders are listed.
C13_OffsetIsGlobalRank ==
    assembled # NoNodes =>
        /\ assembled.len = Len(fed)
        /\ \A k \in 1..Len(fed) :
              nodes_offset(assembled, fed[k].id) = [found |-> TRUE, offset |-> k - 1]

\* the builder listed first holds ids above ids of the builder listed second, one
\* builder got two blocks with a block of the other one in between, and a block
\* filled a page
C13_Witness ==
    /\ assembled # NoNodes
    /\ nbs[listed[1]].len > 0
    /\ nbs[listed[2]].len > 0
    /\ nbs[listed[1]].last_id > nbs[listed[2]].last_id
    /\ \E b \in Builders :
          /\ Len(nbs[b].index_entries) >= 2
          /\ \E i, j \in 1..Len(nbs[b].index_entries), c \in Builders \ {b} :
                \E k \in 1..Len(nbs[c].index_entries) :
                    /\ nbs[b].index_entries[i].min_id < nbs[c].index_entries[k].min_id
                    /\ nbs[c].index_entries[k].min_id < nbs[b].index_entries[j].min_id
    /\ \E b \in Builders : \E i \in 1..Len(nbs[b].index_entries) :
          nbs[b].index_entries[i].ids_end - nbs[b].index_entries[i].ids_start = IdsPerPage

(***************************************************************************)
(* Way tags and arc extraction (generator2/parser.rs,                      *)
(* generator/parser/graph.rs)                                              *)
(***************************************************************************)
\* bound on the number of node refs of a way
MaxRefs == 3

\* Option<&str>
None == <<>>

Some(x) == <<x>>

HighwayTags == {None, Some("motorway"), Some("residential"), Some("footway")}

JunctionTags == {None, Some("roundabout")}

OnewayTags == {None, Some("yes"), Some("true"), Some("1"), Some("no"), Some("false"),
               Some("0"), Some("-1"), Some("reversible")}

RefSeqs == UNION {[1..n -> OsmIds] : n \in 1..MaxRefs}

\* parse_road_level: Some(level) or None
parse_road_level(w) ==
    IF w.highway = None THEN None
    ELSE LET value == w.highway[1]
         IN CASE value \in {"motorway", "motorway_link", "trunk", "trunk_link"} -> Some(0)
              [] value \in {"primary", "primary_link"} -> Some(1)
              [] value \in {"secondary", "secondary_link"} -> Some(2)
              [] value \in {"tertiary", "tertiary_link"} -> Some(3)
              [] value = "unclassified" -> Some(4)
              [] value \in {"residential", "service", "living_street", "road",
                            "rest_area", "services"} -> Some(5)
              [] OTHER -> None

parse_oneway(w) ==
    LET implied == IF w.junction = Some("roundabout") \/ w.highway = Some("motorway")
                   THEN [direct |-> TRUE, reverse |-> FALSE]
                   ELSE [direct |-> TRUE, reverse |-> TRUE]
    IN CASE w.oneway \in {Some("yes"), Some("true"), Some("1")} ->
                [direct |-> TRUE, reverse |-> FALSE]
         [] w.oneway \in {Some("no"), Some("false"), Some("0")} ->
                [direct |-> TRUE, reverse |-> FALSE]
         [] w.oneway = Some("-1") -> [direct |-> FALSE, reverse |-> TRUE]
         [] OTHER -> implied

\* what the walk over the refs of a way carries from node to node
WalkStart(node_id, st) ==
    [seg_start |-> node_id,
     prev_node |-> node_id,
     distance |-> 0,
     blocked |-> node_id \in st.barriers,
     arcs |-> <<>>]

\* the body of the loop, a segment starting unblocked whatever its first node is
WalkStepOpenStart(s, node_id, st, direction, road_level) ==
    LET distance == s.distance + haversine_distance(OsmPoint(s.prev_node), OsmPoint(node_id))
        blocked == s.blocked \/ node_id \in st.barriers
        direct == IF direction.direct
                  THEN <<[from |-> OsmOffset(s.seg_start), to |-> OsmOffset(node_id),
                          road_level |-> road_level, distance |-> distance]>>
                  ELSE <<>>
        reverse == IF direction.reverse
                   THEN <<[from |-> OsmOffset(node_id), to |-> OsmOffset(s.seg_start),
                           road_level |-> road_level, distance |-> distance]>>
                   ELSE <<>>
    IN IF node_id \in st.junctions
       THEN [seg_start |-> node_id,
             prev_node |-> node_id,
             distance |-> 0,
             blocked |-> FALSE,
             arcs |-> IF ~blocked THEN s.arcs \o direct \o reverse ELSE s.arcs]
       ELSE [s EXCEPT !.prev_node = node_id, !.distance = distance, !.blocked = blocked]

\* the body of the loop over the nodes after the first
WalkStep(s, node_id, st, direction, road_level) ==
    LET distance == s.distance + haversine_distance(OsmPoint(s.prev_node), OsmPoint(node_id))
        blocked == s.blocked \/ node_id \in st.barriers
        direct == IF direction.direct
                  THEN <<[from |-> OsmOffset(s.seg_start), to |-> OsmOffset(node_id),
                          road_level |-> road_level, distance |-> distance]>>
                  ELSE <<>>
        reverse == IF direction.reverse
                   THEN <<[from |-> OsmOffset(node_id), to |-> OsmOffset(s.seg_start),
                           road_level |-> road_level, distance |-> distance]>>
                   ELSE <<>>
    IN IF node_id \in st.junctions
       THEN [seg_start |-> node_id,
             prev_node |-> node_id,
             distance |-> 0,
             blocked |-> node_id \in st.barriers,
             arcs |-> IF ~blocked THEN s.arcs \o direct \o reverse ELSE s.arcs]
       ELSE [s EXCEPT !.prev_node = node_id, !.distance = distance, !.blocked = blocked]

RECURSIVE WalkRefs(_, _, _, _, _)
WalkRefs(s, refs, st, direction, road_level) ==
    IF refs = <<>> THEN s
    ELSE WalkRefs(WalkStep(s, Head(refs), st, direction, road_level),
                  Tail(refs), st, direction, road_level)

\* parse_ways for one way of the blob: the arcs pushed, or the panic of its assert_eq!
parse_way(w, st) ==
    IF parse_road_level(w) = None THEN [status |-> "ok", arcs |-> <<>>]
    ELSE LET s == WalkRefs(WalkStart(Head(w.refs), st), Tail(w.refs), st,
                           parse_oneway(w), parse_road_level(w)[1])
         IN IF s.distance = 0 THEN [status |-> "ok", arcs |-> s.arcs]
            ELSE [status |-> "panic", arcs |-> s.arcs]

\* the nodes of a way the junction classifier holds as junctions whatever the other
\* ways are: its first and last node, and a node it passes twice
ForcedJunctions(refs) ==
    {refs[1], refs[Len(refs)]}
        \cup {refs[i] : i \in {k \in 1..Len(refs) : \E j \in 1..Len(refs) : j # k /\ refs[j] = refs[k]}}

WYInit ==
    \E refs \in RefSeqs, highway \in HighwayTags, junction \in JunctionTags,
       oneway \in OnewayTags, junctions \in SUBSET OsmIds, barriers \in SUBSET OsmIds :
        /\ ForcedJunctions(refs) \subseteq junctions
        /\ osmWay = [refs |-> refs, highway |-> highway, junction |-> junction,
                     oneway |-> oneway]
        /\ store = [junctions |-> junctions, barriers |-> barriers]
        /\ wayArcs = <<>>
        /\ wyPhase = "read"
        /\ jb = <<>> /\ jbCalls = <<>>
        /\ cells = <<>> /\ workers = <<>> /\ atCalls = <<>>
        /\ nb = <<>> /\ nodes = <<>> /\ pushed = <<>>
        /\ graph = <<>> /\ arcs = {} /\ built = <<>> /\ stage = "idle" /\ file = <<>>
        /\ carto = <<>>
        /\ smK = 0 /\ stream = <<>> /\ plain = <<>> /\ strata = <<>> /\ minPrio = 0
        /\ smPhase = "idle" /\ smResult = <<>> /\ smByPrio = <<>>
        /\ roads = <<>> /\ cand = 0 /\ query = <<>> /\ singles = <<>> /\ multi = <<>>
        /\ rtPhase = "idle"
        /\ parts = <<>> /\ whole = <<>> /\ acc = <<>> /\ pending = {}
        /\ nbs = <<>> /\ fed = <<>> /\ cur = 0 /\ listed = <<>> /\ assembled = <<>>
    /\ disk = <<>> /\ opened = <<>> /\ rdPhase = "idle"
    /\ profile = "none" /\ score = <<>> /\ exact = <<>> /\ hops = 0 /\ coPhase = "idle"
    /\ series = <<>> /\ builds = <<>> /\ encoded = <<>> /\ decoded = <<>> /\ dlPhase = "idle"
    /\ waysBlobs = <<>> /\ taskQ = <<>> /\ held = <<>> /\ resultQ = <<>> /\ pgraph = <<>>
    /\ plPhase = "idle"
    /\ orderA = <<>> /\ orderB = <<>> /\ runA = <<>> /\ runB = <<>>
    /\ tablesA = <<>> /\ tablesB = <<>> /\ odStage = "idle"
    /\ ob = <<>> /\ oldNodes = <<>>
    /\ osmFile = <<>> /\ classified = <<>> /\ clPhase = "idle"
    /\ scBlobs = <<>> /\ scThreads = 0 /\ scTaken = 0 /\ scWorkers = <<>> /\ scStop = 0
    /\ scResults = <<>> /\ scMain = <<>> /\ scPhase = "idle"
    /\ nfFile = <<>> /\ nfJunctions = <<>> /\ nfQueue = <<>> /\ nfWorkers = <<>>
    /\ nfNodes = <<>> /\ nfPhase = "idle"

WYParse ==
    /\ wyPhase = "read"
    /\ wayArcs' = parse_way(osmWay, store)
    /\ wyPhase' = "parsed"
    /\ UNCHANGED <<osmWay, store>>
    /\ WYOnly

WYNext == WYParse

SpecWays == WYInit /\ [][WYNext]_vars

\* the segments of the way: two junction nodes with no junction node between them
Segments ==
    {seg \in (1..Len(osmWay.refs)) \X (1..Len(osmWay.refs)) :
        /\ seg[1] < seg[2]
        /\ osmWay.refs[seg[1]] \in store.junctions
        /\ osmWay.refs[seg[2]] \in store.junctions
        /\ \A k \in (seg[1] + 1)..(seg[2] - 1) : osmWay.refs[k] \notin store.junctions}

SegmentBlocked(seg) == \E k \in seg[1]..seg[2] : osmWay.refs[k] \in store.barriers

\* from, to and road_level of the arcs pushed for the way
ArcsPushed == {<<wayArcs.arcs[i].from, wayArcs.arcs[i].to, wayArcs.arcs[i].road_level>> :
                  i \in 1..Len(wayArcs.arcs)}

Forward(seg) == <<OsmOffset(osmWay.refs[seg[1]]), OsmOffset(osmWay.refs[seg[2]]),
                  parse_road_level(osmWay)[1]>>

Backward(seg) == <<OsmOffset(osmWay.refs[seg[2]]), OsmOffset(osmWay.refs[seg[1]]),
                   parse_road_level(osmWay)[1]>>

\* C14: the arcs pushed for a road way are those of its unblocked segments, a
\* segment being blocked when any of its nodes, its two junction ends included, is
\* a barrier: start-to-end when the direction includes direct, end-to-start when
\* it includes reverse, with the road level of the way, and nothing else.
C14_ArcsOfUnblockedSegments ==
    (wyPhase = "parsed" /\ parse_road_level(osmWay) # None) =>
        /\ wayArcs.status = "ok"
        /\ ArcsPushed =
              {Forward(seg) : seg \in {s \in Segments :
                                  ~SegmentBlocked(s) /\ parse_oneway(osmWay).direct}}
              \cup {Backward(seg) : seg \in {s \in Segments :
                                  ~SegmentBlocked(s) /\ parse_oneway(osmWay).reverse}}

\* a two-way road of two segments: one is blocked by a barrier at the junction
\* node it starts from and pushed no arc, the other one pushed both its arcs
C14_Witness ==
    /\ wyPhase = "parsed"
    /\ parse_road_level(osmWay) # None
    /\ Cardinality(Segments) = 2
    /\ \E s, t \in Segments :
          /\ SegmentBlocked(s) /\ ~SegmentBlocked(t)
          /\ osmWay.refs[s[1]] \in store.barriers
          /\ Forward(t) \in ArcsPushed /\ Backward(t) \in ArcsPushed
          /\ Forward(s) \notin ArcsPushed /\ Backward(s) \notin ArcsPushed

\* C15: a way tagged oneway=no, oneway=false or oneway=0 is parsed as going both
\* ways: parse_oneway gives direct and reverse, and every unblocked segment of a
\* road way pushed its forward and its backward arc.
C15_NoMeansBothWays ==
    (wyPhase = "parsed" /\ osmWay.oneway \in {Some("no"), Some("false"), Some("0")}) =>
        /\ parse_oneway(osmWay) = [direct |-> TRUE, reverse |-> TRUE]
        /\ parse_road_level(osmWay) # None =>
              \A seg \in Segments :
                  ~SegmentBlocked(seg) =>
                      Forward(seg) \in ArcsPushed /\ Backward(seg) \in ArcsPushed

(***************************************************************************)
(* The junction pass and the arc extraction over the same ways             *)
(* (generator/parser/junction.rs, generator/parser/graph.rs)               *)
(***************************************************************************)
\* the ways of the blobs next to the way followed: road or not, a node once or more
BlobWays ==
    [refs : RefSeqs, highway : {Some("residential"), Some("footway")},
     junction : {None}, oneway : {None}]

\* Junctions::is_junction: the slot of the node is Junction
is_junction(cs, offset) == SlotOf(cs[CellOf(offset)], offset) = Junction

\* the ids of the nodes the classifier reports as Junction
JunctionIds(cs) == {id \in OsmIds : is_junction(cs, OsmOffset(id))}

\* handle_junction and handle_internal on the cell of the node
handle(cs, kind, offset) ==
    [cs EXCEPT ![CellOf(offset)] = WithSlot(@, offset, Marked(kind, SlotOf(@, offset)))]

RECURSIVE MarkRefsOpenEnd(_, _, _)
\* the loop over the refs with only the first node forced to Junction
MarkRefsOpenEnd(cs, node_ids, i) ==
    IF i >= Len(node_ids) THEN cs
    ELSE MarkRefsOpenEnd(
             handle(cs, IF i = 0 THEN "junction" ELSE "internal", OsmOffset(node_ids[i + 1])),
             node_ids, i + 1)

mark_way_open_end(cs, w) ==
    IF parse_road_level(w) # None THEN MarkRefsOpenEnd(cs, w.refs, 0) ELSE cs

RECURSIVE MarkRefs(_, _, _)
\* for (i, id) in node_ids.enumerate(): the first and the last node are junctions
MarkRefs(cs, node_ids, i) ==
    IF i >= Len(node_ids) THEN cs
    ELSE MarkRefs(
             handle(cs, IF i = 0 \/ i = Len(node_ids) - 1 THEN "junction" ELSE "internal",
                    OsmOffset(node_ids[i + 1])),
             node_ids, i + 1)

\* parse_blob of the junction pass, for one way of the block
mark_way(cs, w) ==
    IF parse_road_level(w) # None THEN MarkRefs(cs, w.refs, 0) ELSE cs

\* one way of the file is followed through both passes; the junction pass has
\* seen no way yet
WEInit ==
    \E w \in BlobWays, barriers \in {{}, {2}} :
        /\ osmWay = w
        /\ store = [cells |-> JunctionsNew(Cardinality(OsmIds)), junctions |-> {},
                    barriers |-> barriers]
        /\ wayArcs = <<>>
        /\ wyPhase = "junction pass"
    /\ jb = <<>> /\ jbCalls = <<>>
    /\ cells = <<>> /\ workers = <<>> /\ atCalls = <<>>
    /\ nb = <<>> /\ nodes = <<>> /\ pushed = <<>>
    /\ graph = <<>> /\ arcs = {} /\ built = <<>> /\ stage = "idle" /\ file = <<>> /\ carto = <<>>
    /\ smK = 0 /\ stream = <<>> /\ plain = <<>> /\ strata = <<>> /\ minPrio = 0
    /\ smPhase = "idle" /\ smResult = <<>> /\ smByPrio = <<>>
    /\ roads = <<>> /\ cand = 0 /\ query = <<>> /\ singles = <<>> /\ multi = <<>>
    /\ rtPhase = "idle"
    /\ parts = <<>> /\ whole = <<>> /\ acc = <<>> /\ pending = {}
    /\ nbs = <<>> /\ fed = <<>> /\ cur = 0 /\ listed = <<>> /\ assembled = <<>>
    /\ disk = <<>> /\ opened = <<>> /\ rdPhase = "idle"
    /\ profile = "none" /\ score = <<>> /\ exact = <<>> /\ hops = 0 /\ coPhase = "idle"
    /\ series = <<>> /\ builds = <<>> /\ encoded = <<>> /\ decoded = <<>> /\ dlPhase = "idle"
    /\ waysBlobs = <<>> /\ taskQ = <<>> /\ held = <<>> /\ resultQ = <<>> /\ pgraph = <<>>
    /\ plPhase = "idle"
    /\ orderA = <<>> /\ orderB = <<>> /\ runA = <<>> /\ runB = <<>>
    /\ tablesA = <<>> /\ tablesB = <<>> /\ odStage = "idle"
    /\ ob = <<>> /\ oldNodes = <<>>
    /\ osmFile = <<>> /\ classified = <<>> /\ clPhase = "idle"
    /\ scBlobs = <<>> /\ scThreads = 0 /\ scTaken = 0 /\ scWorkers = <<>> /\ scStop = 0
    /\ scResults = <<>> /\ scMain = <<>> /\ scPhase = "idle"
    /\ nfFile = <<>> /\ nfJunctions = <<>> /\ nfQueue = <<>> /\ nfWorkers = <<>>
    /\ nfNodes = <<>> /\ nfPhase = "idle"

\* the junction pass handles another way of the file, before or after the way
\* followed
WEMarkOther ==
    \E w \in BlobWays :
        /\ wyPhase \in {"junction pass", "own way marked"}
        /\ store' = [store EXCEPT !.cells = mark_way(store.cells, w),
                                  !.junctions = JunctionIds(mark_way(store.cells, w))]
        /\ UNCHANGED <<osmWay, wayArcs, wyPhase>>
        /\ WYOnly

\* the junction pass handles the way followed
WEMarkOwn ==
    /\ wyPhase = "junction pass"
    /\ store' = [store EXCEPT !.cells = mark_way(store.cells, osmWay),
                              !.junctions = JunctionIds(mark_way(store.cells, osmWay))]
    /\ wyPhase' = "own way marked"
    /\ UNCHANGED <<osmWay, wayArcs>>
    /\ WYOnly

\* the junction pass is over: parse_ways reaches the way followed
WEParse ==
    /\ wyPhase = "own way marked"
    /\ wayArcs' = parse_way(osmWay, store)
    /\ wyPhase' = "parsed"
    /\ UNCHANGED <<osmWay, store>>
    /\ WYOnly

WENext == WEMarkOther \/ WEMarkOwn \/ WEParse

SpecWayEnds == WEInit /\ [][WENext]_vars

MaxEdits == 2

\* byte values written over the header: NUL, 'P', 'p'
HeaderBytes == {0, 80, 112}

\* a file as serialize writes it: two nodes, an edge each way
SampleFile == serialize(push_arc(push_arc(GraphNew, 1, 2, 2, 2), 2, 1, 5, 1))

\* the lengths a file is cut to: nothing, half a header, the header, the counts
CutLengths == {0, 5, Len(Magic), Len(Magic) + 8, Len(SampleFile) - 1}

RDInit ==
    /\ disk = SampleFile
    /\ opened = <<>>
    /\ rdPhase = "closed"
    /\ jb = <<>> /\ jbCalls = <<>>
    /\ cells = <<>> /\ workers = <<>> /\ atCalls = <<>>
    /\ nb = <<>> /\ nodes = <<>> /\ pushed = <<>>
    /\ graph = <<>> /\ arcs = {} /\ built = <<>> /\ stage = "idle" /\ file = <<>> /\ carto = <<>>
    /\ smK = 0 /\ stream = <<>> /\ plain = <<>> /\ strata = <<>> /\ minPrio = 0
    /\ smPhase = "idle" /\ smResult = <<>> /\ smByPrio = <<>>
    /\ roads = <<>> /\ cand = 0 /\ query = <<>> /\ singles = <<>> /\ multi = <<>>
    /\ rtPhase = "idle"
    /\ parts = <<>> /\ whole = <<>> /\ acc = <<>> /\ pending = {}
    /\ nbs = <<>> /\ fed = <<>> /\ cur = 0 /\ listed = <<>> /\ assembled = <<>>
    /\ osmWay = <<>> /\ store = <<>> /\ wayArcs = <<>> /\ wyPhase = "idle"
    /\ profile = "none" /\ score = <<>> /\ exact = <<>> /\ hops = 0 /\ coPhase = "idle"
    /\ series = <<>> /\ builds = <<>> /\ encoded = <<>> /\ decoded = <<>> /\ dlPhase = "idle"
    /\ waysBlobs = <<>> /\ taskQ = <<>> /\ held = <<>> /\ resultQ = <<>> /\ pgraph = <<>>
    /\ plPhase = "idle"
    /\ orderA = <<>> /\ orderB = <<>> /\ runA = <<>> /\ runB = <<>>
    /\ tablesA = <<>> /\ tablesB = <<>> /\ odStage = "idle"
    /\ ob = <<>> /\ oldNodes = <<>>
    /\ osmFile = <<>> /\ classified = <<>> /\ clPhase = "idle"
    /\ scBlobs = <<>> /\ scThreads = 0 /\ scTaken = 0 /\ scWorkers = <<>> /\ scStop = 0
    /\ scResults = <<>> /\ scMain = <<>> /\ scPhase = "idle"
    /\ nfFile = <<>> /\ nfJunctions = <<>> /\ nfQueue = <<>> /\ nfWorkers = <<>>
    /\ nfNodes = <<>> /\ nfPhase = "idle"

\* something else than serialize writes a byte of the header
RDWriteHeader ==
    \E i \in 1..Len(Magic), b \in HeaderBytes :
        /\ rdPhase = "closed"
        /\ i <= Len(disk)
        /\ Cardinality({k \in 1..Min(Len(Magic), Len(disk)) : disk[k] # Magic[k]}) < MaxEdits
        /\ disk' = [disk EXCEPT ![i] = b]
        /\ UNCHANGED <<opened, rdPhase>>
        /\ RDOnly

\* the file is cut short
RDTruncate ==
    \E n \in CutLengths :
        /\ rdPhase = "closed"
        /\ n < Len(disk)
        /\ Len(disk) = Len(SampleFile)
        /\ disk' = SubSeq(disk, 1, n)
        /\ UNCHANGED <<opened, rdPhase>>
        /\ RDOnly

RDOpen ==
    /\ rdPhase = "closed"
    /\ opened' = open(disk)
    /\ rdPhase' = IF OpenPanics(open(disk)) THEN "panic" ELSE "opened"
    /\ UNCHANGED disk
    /\ RDOnly

RDNext == RDWriteHeader \/ RDTruncate \/ RDOpen

SpecReader == RDInit /\ [][RDNext]_vars

\* C16: Cartograph::open checks the magic: a file that does not start with the
\* ten bytes PTOLEMY-v2 gives an error and no Cartograph, whatever follows them.
C16_MagicVerified ==
    (rdPhase # "closed" /\ SubSeq(disk, 1, Min(Len(Magic), Len(disk))) # Magic) =>
        (rdPhase = "opened" /\ ~opened.ok)

(***************************************************************************)
(* u32 distances (cartograph.rs): the cost of a path as the search adds    *)
(* edge after edge, and the corrections added at the end.  A u32 is kept   *)
(* as two 16-bit halves.                                                   *)
(***************************************************************************)
\* bound on the number of edges relaxed along one path
MaxHops == 3

Half == 65536

U32Zero == [hi |-> 0, lo |-> 0]

\* u32::MAX
U32Max == [hi |-> Half - 1, lo |-> Half - 1]

\* distances of edges and of corrections: 0, 1, 65535, 2^31 and u32::MAX
Distances == {U32Zero, [hi |-> 0, lo |-> 1], [hi |-> 0, lo |-> Half - 1],
              [hi |-> Half \div 2, lo |-> 0], U32Max}

Profiles == {"debug", "release"}

\* a + b on u32: whether the exact sum is above u32::MAX, and the sum modulo 2^32
overflowing_add(a, b) ==
    LET lo == a.lo + b.lo
        hi == a.hi + b.hi + lo \div Half
    IN [overflow |-> hi >= Half, value |-> [hi |-> hi % Half, lo |-> lo % Half]]

\* the exact sum, the high half growing past 16 bits
ExactAdd(a, b) ==
    LET lo == a.lo + b.lo
    IN [hi |-> a.hi + b.hi + lo \div Half, lo |-> lo % Half]

\* the operator + on u32 under a build profile: a panic when overflow checks are
\* on and the sum overflows, the wrapped sum otherwise
Plus(build, a, b) ==
    LET r == overflowing_add(a, b)
    IN IF r.overflow /\ build = "debug" THEN [panic |-> TRUE, value |-> a]
       ELSE [panic |-> FALSE, value |-> r.value]

COInit ==
    \E build \in Profiles :
        /\ profile = build
        /\ score = U32Zero
        /\ exact = U32Zero
        /\ hops = 0
        /\ coPhase = "search"
        /\ jb = <<>> /\ jbCalls = <<>>
        /\ cells = <<>> /\ workers = <<>> /\ atCalls = <<>>
        /\ nb = <<>> /\ nodes = <<>> /\ pushed = <<>>
        /\ graph = <<>> /\ arcs = {} /\ built = <<>> /\ stage = "idle" /\ file = <<>>
        /\ carto = <<>>
        /\ smK = 0 /\ stream = <<>> /\ plain = <<>> /\ strata = <<>> /\ minPrio = 0
        /\ smPhase = "idle" /\ smResult = <<>> /\ smByPrio = <<>>
        /\ roads = <<>> /\ cand = 0 /\ query = <<>> /\ singles = <<>> /\ multi = <<>>
        /\ rtPhase = "idle"
        /\ parts = <<>> /\ whole = <<>> /\ acc = <<>> /\ pending = {}
        /\ nbs = <<>> /\ fed = <<>> /\ cur = 0 /\ listed = <<>> /\ assembled = <<>>
        /\ osmWay = <<>> /\ store = <<>> /\ wayArcs = <<>> /\ wyPhase = "idle"
        /\ disk = <<>> /\ opened = <<>> /\ rdPhase = "idle"
    /\ series = <<>> /\ builds = <<>> /\ encoded = <<>> /\ decoded = <<>> /\ dlPhase = "idle"
    /\ waysBlobs = <<>> /\ taskQ = <<>> /\ held = <<>> /\ resultQ = <<>> /\ pgraph = <<>>
    /\ plPhase = "idle"
    /\ orderA = <<>> /\ orderB = <<>> /\ runA = <<>> /\ runB = <<>>
    /\ tablesA = <<>> /\ tablesB = <<>> /\ odStage = "idle"
    /\ ob = <<>> /\ oldNodes = <<>>
    /\ osmFile = <<>> /\ classified = <<>> /\ clPhase = "idle"
    /\ scBlobs = <<>> /\ scThreads = 0 /\ scTaken = 0 /\ scWorkers = <<>> /\ scStop = 0
    /\ scResults = <<>> /\ scMain = <<>> /\ scPhase = "idle"
    /\ nfFile = <<>> /\ nfJunctions = <<>> /\ nfQueue = <<>> /\ nfWorkers = <<>>
    /\ nfNodes = <<>> /\ nfPhase = "idle"

\* next_score = node_score + edge.weight().distance
CORelax ==
    \E distance \in Distances :
        /\ coPhase = "search"
        /\ hops < MaxHops
        /\ LET next_score == Plus(profile, score, distance)
           IN /\ score' = next_score.value
              /\ coPhase' = IF next_score.panic THEN "panic" ELSE "search"
        /\ exact' = ExactAdd(exact, distance)
        /\ hops' = hops + 1
        /\ UNCHANGED profile
        /\ COOnly

\* final_costs[i] = extra_start_cost + cost + extra_end_cost
COFinish ==
    \E extra_start_cost \in Distances, extra_end_cost \in Distances :
        /\ coPhase = "search"
        /\ LET first == Plus(profile, extra_start_cost, score)
               second == Plus(profile, first.value, extra_end_cost)
           IN /\ score' = second.value
              /\ coPhase' = IF first.panic \/ second.panic THEN "panic" ELSE "done"
        /\ exact' = ExactAdd(ExactAdd(extra_start_cost, exact), extra_end_cost)
        /\ UNCHANGED <<profile, hops>>
        /\ COOnly

CONext == CORelax \/ COFinish

SpecCost == COInit /\ [][CONext]_vars

\* C18: sums of u32 distances saturate: whenever the exact sum of the distances
\* added so far is above u32::MAX the cost is u32::MAX, never a smaller wrapped
\* value, and no addition aborts.
C18_Saturates ==
    /\ coPhase # "panic"
    /\ exact.hi >= Half => score = U32Max

(***************************************************************************)
(* Delta encoding of a column: compress (generator/parser/serialize.rs)    *)
(* and Cartograph::decompress, under the overflow checks of their builds   *)
(***************************************************************************)
\* bound on the number of values of a column
MaxSeries == 3

\* i32 values: the two ends of the range and the values around zero
SeriesValues == {I32Min, -1, 0, 1, I32Max}

SeriesSeqs == UNION {[1..n -> SeriesValues] : n \in 0..MaxSeries}

\* a + b leaves the range of i32
AddOverflows(a, b) ==
    \/ b > 0 /\ a > I32Max - b
    \/ b < 0 /\ a < ((-I32Max) - 1) - b

\* a - b leaves the range of i32
SubOverflows(a, b) ==
    \/ b < 0 /\ a > I32Max + b
    \/ b > 0 /\ a < ((-I32Max) - 1) + b

\* compress panics: values.next().unwrap() on no value at all, or `value - prev`
\* overflowing in a build with overflow checks
CompressPanics(build, values) ==
    \/ values = <<>>
    \/ /\ build = "debug"
       /\ \E i \in 2..Len(values) : SubOverflows(values[i], values[i - 1])

RECURSIVE UndeltaOverflows(_, _, _, _)
\* `prev += delta` overflows somewhere in the loop of decompress
UndeltaOverflows(payload, pos, prev, count) ==
    IF count = 0 \/ pos + 3 > Len(payload) THEN FALSE
    ELSE LET delta == I32FromLE(SubSeq(payload, pos, pos + 3))
         IN \/ AddOverflows(prev, delta)
            \/ UndeltaOverflows(payload, pos + 4, WrappingAdd(prev, delta), count - 1)

\* decompress panics in a build with overflow checks
DecompressPanics(build, bytes, pos, len) ==
    /\ build = "debug"
    /\ pos + 7 <= Len(bytes)
    /\ LET length == FromLE(SubSeq(bytes, pos, pos + 7))
           payload == GzDecode(SubSeq(bytes, pos + 8, Min(pos + 7 + length, Len(bytes))))
       IN /\ Len(payload) >= 4
          /\ UndeltaOverflows(payload, 5, I32FromLE(SubSeq(payload, 1, 4)), Max(len, 1) - 1)

DLInit ==
    \E values \in SeriesSeqs, generator \in Profiles, cartograph \in Profiles :
        /\ series = values
        /\ builds = [generator |-> generator, cartograph |-> cartograph]
        /\ encoded = <<>>
        /\ decoded = <<>>
        /\ dlPhase = "plain"
        /\ jb = <<>> /\ jbCalls = <<>>
        /\ cells = <<>> /\ workers = <<>> /\ atCalls = <<>>
        /\ nb = <<>> /\ nodes = <<>> /\ pushed = <<>>
        /\ graph = <<>> /\ arcs = {} /\ built = <<>> /\ stage = "idle" /\ file = <<>>
        /\ carto = <<>>
        /\ smK = 0 /\ stream = <<>> /\ plain = <<>> /\ strata = <<>> /\ minPrio = 0
        /\ smPhase = "idle" /\ smResult = <<>> /\ smByPrio = <<>>
        /\ roads = <<>> /\ cand = 0 /\ query = <<>> /\ singles = <<>> /\ multi = <<>>
        /\ rtPhase = "idle"
        /\ parts = <<>> /\ whole = <<>> /\ acc = <<>> /\ pending = {}
        /\ nbs = <<>> /\ fed = <<>> /\ cur = 0 /\ listed = <<>> /\ assembled = <<>>
        /\ osmWay = <<>> /\ store = <<>> /\ wayArcs = <<>> /\ wyPhase = "idle"
        /\ disk = <<>> /\ opened = <<>> /\ rdPhase = "idle"
        /\ profile = "none" /\ score = <<>> /\ exact = <<>> /\ hops = 0 /\ coPhase = "idle"
    /\ waysBlobs = <<>> /\ taskQ = <<>> /\ held = <<>> /\ resultQ = <<>> /\ pgraph = <<>>
    /\ plPhase = "idle"
    /\ orderA = <<>> /\ orderB = <<>> /\ runA = <<>> /\ runB = <<>>
    /\ tablesA = <<>> /\ tablesB = <<>> /\ odStage = "idle"
    /\ ob = <<>> /\ oldNodes = <<>>
    /\ osmFile = <<>> /\ classified = <<>> /\ clPhase = "idle"
    /\ scBlobs = <<>> /\ scThreads = 0 /\ scTaken = 0 /\ scWorkers = <<>> /\ scStop = 0
    /\ scResults = <<>> /\ scMain = <<>> /\ scPhase = "idle"
    /\ nfFile = <<>> /\ nfJunctions = <<>> /\ nfQueue = <<>> /\ nfWorkers = <<>>
    /\ nfNodes = <<>> /\ nfPhase = "idle"

\* serialize writes the column: its length, then compress(values)
DLCompress ==
    /\ dlPhase = "plain"
    /\ IF CompressPanics(builds.generator, series)
       THEN dlPhase' = "panic" /\ UNCHANGED encoded
       ELSE dlPhase' = "encoded" /\ encoded' = Column(series)
    /\ UNCHANGED <<series, builds, decoded>>
    /\ DLOnly

\* Cartograph::decompress reads the column back, with the length it was written with
DLDecompress ==
    /\ dlPhase = "encoded"
    /\ IF DecompressPanics(builds.cartograph, encoded, 1, Len(series))
       THEN dlPhase' = "panic" /\ UNCHANGED decoded
       ELSE dlPhase' = "decoded" /\ decoded' = decompress(encoded, 1, Len(series))
    /\ UNCHANGED <<series, builds, encoded>>
    /\ DLOnly

DLNext == DLCompress \/ DLDecompress

SpecDelta == DLInit /\ [][DLNext]_vars

\* C19: delta-encoding any sequence of i32 values and decoding it by running sum
\* with the same length gives the sequence back.
C19_DeltaRoundTrip ==
    dlPhase \in {"decoded", "panic"} =>
        /\ dlPhase = "decoded"
        /\ decoded.ok
        /\ decoded.values = series

(***************************************************************************)
(* retain_reachable_nodes called twice (generator/data_types/graph.rs)     *)
(***************************************************************************)
\* the second call; `built` keeps the graph it was called on
GRRetainAgain ==
    /\ stage = "pruned"
    /\ graph' = retain_reachable_nodes(graph, 2)
    /\ built' = graph
    /\ stage' = "pruned twice"
    /\ UNCHANGED <<arcs, file, carto>>
    /\ GROnly

GRRetainNext == GRPushArc \/ GRRetain \/ GRRetainAgain

SpecRetain == GRInit /\ [][GRRetainNext]_vars

\* the OSM ids of the nodes of a graph
NodeIdsOf(g) == {g.nodes[i].id : i \in 1..Len(g.nodes)}

\* C20: retain_reachable_nodes(2) called a second time removes no node and no
\* edge: the graph it leaves is the graph it was called on.
C20_RetainIdempotent ==
    stage = "pruned twice" =>
        /\ graph.nodes = built.nodes
        /\ graph.edges = built.edges

\* the first call removed a node an arc was pushed for, and kept an edge of a
\* road_level above 2
C20_Witness ==
    /\ stage = "pruned twice"
    /\ node_len(graph) > 0
    /\ \E arc \in arcs : arc.from \notin NodeIdsOf(graph) \/ arc.to \notin NodeIdsOf(graph)
    /\ \E e \in 1..edge_len(graph) : graph.edges[e].road_level > 2

(***************************************************************************)
(* fix_dead_ends on any graph push_arc builds, and called twice            *)
(* (generator/data_types/graph.rs)                                         *)
(***************************************************************************)
\* fix_dead_ends on the graph as built; `built` keeps the graph it was called on
GRFixOnce ==
    /\ stage = "build"
    /\ graph' = fix_dead_ends(graph)
    /\ built' = graph
    /\ stage' = "fixed once"
    /\ UNCHANGED <<arcs, file, carto>>
    /\ GROnly

\* the second call
GRFixAgain ==
    /\ stage = "fixed once"
    /\ graph' = fix_dead_ends(graph)
    /\ built' = graph
    /\ stage' = "fixed twice"
    /\ UNCHANGED <<arcs, file, carto>>
    /\ GROnly

GRFixNext == GRPushArc \/ GRFixOnce \/ GRFixAgain

SpecFix == GRInit /\ [][GRFixNext]_vars

\* C21: a second run of fix_dead_ends adds no edge: the edges it leaves are the
\* edges it found.
C21_FixIdempotent ==
    stage = "fixed twice" => graph.edges = built.edges /\ graph.nodes = built.nodes

\* the first run had something to double: the graph has an edge no arc was pushed for
C21_Witness ==
    /\ stage = "fixed twice"
    /\ \E e \in 1..edge_len(graph) :
          LET ids == EdgeIds(graph, e) IN ArcsOf(ids[1], ids[2]) = {}
    /\ \E e \in 1..edge_len(graph) : graph.edges[e].source = graph.edges[e].target

\* the nodes joined to n by edges taken in either direction
RECURSIVE WeakFrom(_, _)
WeakFrom(g, seen) ==
    LET more == {g.edges[e].target : e \in {f \in 1..Len(g.edges) : g.edges[f].source \in seen}}
                \cup {g.edges[e].source : e \in {f \in 1..Len(g.edges) : g.edges[f].target \in seen}}
    IN IF more \subseteq seen THEN seen ELSE WeakFrom(g, seen \cup more)

\* C27: after fix_dead_ends no edge joins two strongly connected components, every
\* weakly connected component is strongly connected, the edges found are all
\* still there, and each edge added is the reverse of an edge found, with its
\* road_level and distance.
C27_NoEdgeBetweenComponents ==
    stage = "fixed once" =>
        /\ \A e \in 1..edge_len(graph) :
              ComponentOf(graph, graph.edges[e].source) = ComponentOf(graph, graph.edges[e].target)
        /\ \A n \in NodeIdx(graph) : WeakFrom(graph, {n}) = ComponentOf(graph, n)
        /\ graph.nodes = built.nodes
        /\ SubSeq(graph.edges, 1, edge_len(built)) = built.edges
        /\ \A e \in (edge_len(built) + 1)..edge_len(graph) :
              \E f \in 1..edge_len(built) :
                  /\ built.edges[f].source = graph.edges[e].target
                  /\ built.edges[f].target = graph.edges[e].source
                  /\ built.edges[f].road_level = graph.edges[e].road_level
                  /\ built.edges[f].distance = graph.edges[e].distance

\* a chain of three components became one, by two edges of different road levels
\* fix_dead_ends added
C27_Witness ==
    /\ stage = "fixed once"
    /\ Cardinality(scc(built)) = 3
    /\ Cardinality(scc(graph)) = 1
    /\ edge_len(graph) = edge_len(built) + 2
    /\ graph.edges[edge_len(graph)].road_level # graph.edges[edge_len(graph) - 1].road_level

(***************************************************************************)
(* Parallel edges: push_arc merges the arcs of one ordered pair, and the   *)
(* two passes that add edges add none between nodes an edge already joins  *)
(***************************************************************************)
\* no two edges of g have the same source and the same target
NoParallelEdges(g) ==
    \A e, f \in 1..edge_len(g) :
        (g.edges[e].source = g.edges[f].source /\ g.edges[e].target = g.edges[f].target) => e = f

\* C28: on a graph built by push_arc and pruned, fix_dead_ends and strongly_connect
\* in pipeline order add no edge whose ordered pair of ends already has an edge:
\* after each pass, and at completion, no two edges share an ordered pair of ends.
C28_NoParallelEdges ==
    stage \in {"pruned", "fixed", "connected", "serialized", "opened"} => NoParallelEdges(graph)

\* the pipeline completed after fix_dead_ends added the reverse of an arc and
\* strongly_connect joined two nodes no arc joins
C28_Witness ==
    /\ stage = "connected"
    /\ \E e \in 1..edge_len(graph) :
          LET ids == EdgeIds(graph, e)
          IN ArcsOf(ids[1], ids[2]) = {} /\ ArcsOf(ids[2], ids[1]) # {}
    /\ \E e \in 1..edge_len(graph) :
          LET ids == EdgeIds(graph, e)
          IN ArcsOf(ids[1], ids[2]) = {} /\ ArcsOf(ids[2], ids[1]) = {}

(***************************************************************************)
(* What retain_reachable_nodes keeps, told by OSM ids: node indexes change *)
(* when petgraph swaps the last node into a freed index                    *)
(***************************************************************************)
\* the max_root_road_level values a caller can pass for the levels 0..5
RootLevels == 0..5

\* the edges of g as (from id, to id, road_level, distance), the unit push_arc takes
EdgesById(g) ==
    {<<EdgeIds(g, e)[1], EdgeIds(g, e)[2], g.edges[e].road_level, g.edges[e].distance>> :
        e \in 1..edge_len(g)}

RECURSIVE IdsReached(_, _)
\* the ids reachable along the edges of g from the ids in seen
IdsReached(g, seen) ==
    LET more == {t[2] : t \in {u \in EdgesById(g) : u[1] \in seen}}
    IN IF more \subseteq seen THEN seen ELSE IdsReached(g, seen \cup more)

\* the ids reachable from an end of an edge of road_level <= L
IdsToKeep(g, L) ==
    IdsReached(g, UNION {{t[1], t[2]} : t \in {u \in EdgesById(g) : u[3] <= L}})

\* after is before cut down to the nodes reachable from a root edge and the edges
\* between them
RetainedAsClaimed(before, after, L) ==
    /\ NodeIdsOf(after) = IdsToKeep(before, L)
    /\ node_len(after) = Cardinality(IdsToKeep(before, L))
    /\ \A i \in 1..node_len(after) : \E j \in 1..node_len(before) : after.nodes[i] = before.nodes[j]
    /\ EdgesById(after) = {t \in EdgesById(before) :
                              t[1] \in IdsToKeep(before, L) /\ t[2] \in IdsToKeep(before, L)}
    /\ edge_len(after) = Cardinality(EdgesById(after))

\* C29: retain_reachable_nodes(L) keeps exactly the nodes reachable from an end of
\* an edge of road_level <= L and exactly the edges with both ends kept; it adds
\* no node and no edge and changes no EdgeInfo.
C29_RetainKeepsReachable ==
    stage = "pruned" =>
        /\ RetainedAsClaimed(built, graph, 2)
        /\ \A L \in RootLevels : RetainedAsClaimed(built, retain_reachable_nodes(built, L), L)

\* the call removed the first node and an edge, moved the last node into the freed
\* index and kept an edge of that node, of a road_level above 2
C29_Witness ==
    /\ stage = "pruned"
    /\ node_len(built) = 3
    /\ node_len(graph) = 2
    /\ graph.nodes[1] = built.nodes[3]
    /\ edge_len(graph) = 2
    /\ edge_len(built) = 3
    /\ \E e \in 1..edge_len(graph) : graph.edges[e].road_level > 2 /\ graph.edges[e].source = 0

(***************************************************************************)
(* parse_file_parallel (generator/parser/graph.rs): worker threads take    *)
(* blobs from the task channel and send the arcs of each on the result     *)
(* channel; the spawning thread pushes them in the order they arrive       *)
(***************************************************************************)
\* bound on file.ways_blobs.len()
MaxBlobs == 3

\* the Vec<Arc> parse_ways returns for a blob: none, arcs of one pair with two
\* EdgeInfo, arcs of both directions, a loop
BlobArcs ==
    {<<>>,
     <<[from |-> 1, to |-> 2, road_level |-> 5, distance |-> 2]>>,
     <<[from |-> 1, to |-> 2, road_level |-> 2, distance |-> 1],
       [from |-> 2, to |-> 1, road_level |-> 5, distance |-> 1]>>,
     <<[from |-> 3, to |-> 3, road_level |-> 2, distance |-> 2],
       [from |-> 2, to |-> 1, road_level |-> 2, distance |-> 2]>>}

RECURSIVE PushArcs(_, _, _)
\* for arc in arcs { graph.push_arc(arc.from, arc.to, arc.road_level, arc.distance) }
PushArcs(g, list, i) ==
    IF i > Len(list) THEN g
    ELSE PushArcs(push_arc(g, list[i].from, list[i].to, list[i].road_level, list[i].distance),
                  list, i + 1)

RECURSIVE PushBlobs(_, _, _)
PushBlobs(g, list, b) ==
    IF b > Len(list) THEN g ELSE PushBlobs(PushArcs(g, list[b], 1), list, b + 1)

\* parse_file_sequential: the blobs in file order
parse_file_sequential(list) == PushBlobs(GraphNew, list, 1)

\* every task is sent before a thread is spawned; the graph is new
PLInit ==
    /\ waysBlobs \in UNION {[1..n -> BlobArcs] : n \in 1..MaxBlobs}
    /\ taskQ = [i \in 1..Len(waysBlobs) |-> i]
    /\ held = [t \in Threads |-> 0]
    /\ resultQ = <<>>
    /\ pgraph = GraphNew
    /\ plPhase = "run"
    /\ jb = <<>> /\ jbCalls = <<>>
    /\ cells = <<>> /\ workers = <<>> /\ atCalls = <<>>
    /\ nb = <<>> /\ nodes = <<>> /\ pushed = <<>>
    /\ graph = <<>> /\ arcs = {} /\ built = <<>> /\ stage = "idle" /\ file = <<>> /\ carto = <<>>
    /\ smK = 0 /\ stream = <<>> /\ plain = <<>> /\ strata = <<>> /\ minPrio = 0
    /\ smPhase = "idle" /\ smResult = <<>> /\ smByPrio = <<>>
    /\ roads = <<>> /\ cand = 0 /\ query = <<>> /\ singles = <<>> /\ multi = <<>>
    /\ rtPhase = "idle"
    /\ parts = <<>> /\ whole = <<>> /\ acc = <<>> /\ pending = {}
    /\ nbs = <<>> /\ fed = <<>> /\ cur = 0 /\ listed = <<>> /\ assembled = <<>>
    /\ osmWay = <<>> /\ store = <<>> /\ wayArcs = <<>> /\ wyPhase = "idle"
    /\ disk = <<>> /\ opened = <<>> /\ rdPhase = "idle"
    /\ profile = "none" /\ score = <<>> /\ exact = <<>> /\ hops = 0 /\ coPhase = "idle"
    /\ series = <<>> /\ builds = <<>> /\ encoded = <<>> /\ decoded = <<>> /\ dlPhase = "idle"
    /\ orderA = <<>> /\ orderB = <<>> /\ runA = <<>> /\ runB = <<>>
    /\ tablesA = <<>> /\ tablesB = <<>> /\ odStage = "idle"
    /\ ob = <<>> /\ oldNodes = <<>>
    /\ osmFile = <<>> /\ classified = <<>> /\ clPhase = "idle"
    /\ scBlobs = <<>> /\ scThreads = 0 /\ scTaken = 0 /\ scWorkers = <<>> /\ scStop = 0
    /\ scResults = <<>> /\ scMain = <<>> /\ scPhase = "idle"
    /\ nfFile = <<>> /\ nfJunctions = <<>> /\ nfQueue = <<>> /\ nfWorkers = <<>>
    /\ nfNodes = <<>> /\ nfPhase = "idle"

\* for ways in task_receiver: a worker takes the next blob and parses it
PLTake ==
    \E t \in Threads :
        /\ plPhase = "run"
        /\ held[t] = 0
        /\ taskQ # <<>>
        /\ held' = [held EXCEPT ![t] = Head(taskQ)]
        /\ taskQ' = Tail(taskQ)
        /\ UNCHANGED <<waysBlobs, resultQ, pgraph, plPhase>>
        /\ PLOnly

\* result_sender.send(..): blocks while the channel holds 2 * num_threads results
PLSend ==
    \E t \in Threads :
        /\ plPhase = "run"
        /\ held[t] # 0
        /\ Len(resultQ) < 2 * NumThreads
        /\ resultQ' = Append(resultQ, held[t])
        /\ held' = [held EXCEPT ![t] = 0]
        /\ UNCHANGED <<waysBlobs, taskQ, pgraph, plPhase>>
        /\ PLOnly

\* for arcs in result_receiver: the arcs of the next result, in their order
PLConsume ==
    /\ plPhase = "run"
    /\ resultQ # <<>>
    /\ pgraph' = PushArcs(pgraph, waysBlobs[Head(resultQ)], 1)
    /\ resultQ' = Tail(resultQ)
    /\ UNCHANGED <<waysBlobs, taskQ, held, plPhase>>
    /\ PLOnly

\* every worker has ended and dropped its sender: the loop over result_receiver ends
PLFinish ==
    /\ plPhase = "run"
    /\ taskQ = <<>>
    /\ \A t \in Threads : held[t] = 0
    /\ resultQ = <<>>
    /\ plPhase' = "done"
    /\ UNCHANGED <<waysBlobs, taskQ, held, resultQ, pgraph>>
    /\ PLOnly

PLNext == PLTake \/ PLSend \/ PLConsume \/ PLFinish

SpecParallel == PLInit /\ [][PLNext]_vars

\* C25: the edge set parallel extraction produces, as a set of (from, to,
\* road_level, distance), is the edge set of the sequential extraction of the same
\* blobs, whatever the order the results were delivered in.
C25_ParallelAsSequential ==
    plPhase = "done" => EdgesById(pgraph) = EdgesById(parse_file_sequential(waysBlobs))

\* the results arrived in another order than the file's, so that the nodes and
\* edges were created in another order, and an edge holds the road_level of one
\* blob's arc and the distance of another's
C25_Witness ==
    /\ plPhase = "done"
    /\ pgraph.nodes # parse_file_sequential(waysBlobs).nodes
    /\ pgraph.edges # parse_file_sequential(waysBlobs).edges
    /\ \E e \in 1..edge_len(pgraph) :
          /\ pgraph.edges[e].road_level = 5
          /\ pgraph.edges[e].distance = 1
          /\ EdgeIds(pgraph, e) = <<1, 2>>
    /\ \A b \in 1..Len(waysBlobs) : \A i \in 1..Len(waysBlobs[b]) :
          waysBlobs[b][i] # [from |-> 1, to |-> 2, road_level |-> 5, distance |-> 1]

(***************************************************************************)
(* Two runs of the generator on the same arcs pushed in two orders.  Node  *)
(* indexes follow the order of the arcs, and strongly_connect takes as     *)
(* base the component max_by_key finds in the Vec kosaraju_scc returns     *)
(***************************************************************************)
\* the sources of the edges into n, the edge added last first (petgraph
\* neighbors_directed(n, Incoming))
InNeighbors(g, n) ==
    LET es == SelectSeq(g.edges, LAMBDA e : e.target = n)
    IN [i \in 1..Len(es) |-> es[Len(es) + 1 - i].source]

\* the targets of the edges out of n, the edge added last first (neighbors)
OutNeighbors(g, n) ==
    LET es == SelectSeq(g.edges, LAMBDA e : e.source = n)
    IN [i \in 1..Len(es) |-> es[Len(es) + 1 - i].target]

RECURSIVE PostOrderRun(_, _)
\* DfsPostOrder::next on Reversed(g), called until it returns None
PostOrderRun(g, st) ==
    IF st.stack = <<>> THEN st
    ELSE LET nx == st.stack[Len(st.stack)]
         IN IF nx \notin st.discovered
            THEN PostOrderRun(g, [st EXCEPT
                    !.discovered = @ \cup {nx},
                    !.stack = @ \o SelectSeq(InNeighbors(g, nx),
                                             LAMBDA s : s \notin st.discovered \cup {nx})])
            ELSE PostOrderRun(g, [st EXCEPT
                    !.stack = SubSeq(@, 1, Len(@) - 1),
                    !.finished = @ \cup {nx},
                    !.out = IF nx \in st.finished THEN @ ELSE Append(@, nx)])

RECURSIVE FinishFrom(_, _, _)
\* first phase of kosaraju_scc: the nodes in the order they finish
FinishFrom(g, st, i) ==
    IF i >= node_len(g) THEN st.out
    ELSE FinishFrom(g, IF i \in st.discovered THEN st
                       ELSE PostOrderRun(g, [st EXCEPT !.stack = <<i>>]), i + 1)

RECURSIVE DfsRun(_, _)
\* Dfs::next on g, called until it returns None
DfsRun(g, st) ==
    IF st.stack = <<>> THEN st
    ELSE LET node == st.stack[Len(st.stack)]
             rest == SubSeq(st.stack, 1, Len(st.stack) - 1)
         IN IF node \notin st.discovered
            THEN DfsRun(g, [st EXCEPT
                    !.discovered = @ \cup {node},
                    !.stack = rest \o SelectSeq(OutNeighbors(g, node),
                                                LAMBDA s : s \notin st.discovered \cup {node}),
                    !.out = Append(@, node)])
            ELSE DfsRun(g, [st EXCEPT !.stack = rest])

RECURSIVE SccFrom(_, _, _, _, _)
\* second phase: a search from every node not yet discovered, last finished first
SccFrom(g, finish_order, k, discovered, sccs) ==
    IF k = 0 THEN sccs
    ELSE IF finish_order[k] \in discovered
         THEN SccFrom(g, finish_order, k - 1, discovered, sccs)
         ELSE LET run == DfsRun(g, [stack |-> <<finish_order[k]>>,
                                    discovered |-> discovered, out |-> <<>>])
              IN SccFrom(g, finish_order, k - 1, run.discovered, Append(sccs, run.out))

\* petgraph::algo::kosaraju_scc: the components as the Vec of Vecs it returns
kosaraju_scc(g) ==
    SccFrom(g,
            FinishFrom(g, [stack |-> <<>>, discovered |-> {}, finished |-> {}, out |-> <<>>], 0),
            node_len(g), {}, <<>>)

\* Iterator::max_by_key over the lengths: the last of the longest components
base_i(components) ==
    CHOOSE i \in 1..Len(components) :
        /\ \A j \in 1..Len(components) : Len(components[j]) <= Len(components[i])
        /\ \A j \in (i + 1)..Len(components) : Len(components[j]) < Len(components[i])

\* Iterator::min_by_key over the distances to the neighbour nn gives each node:
\* the first of the nearest nodes of the component
best_link(g, component, nn) ==
    LET Dist(n) == haversine_distance(g.nodes[n + 1].point, g.nodes[nn[n] + 1].point)
        k == CHOOSE i \in 1..Len(component) :
                /\ \A j \in 1..Len(component) : Dist(component[i]) <= Dist(component[j])
                /\ \A j \in 1..(i - 1) : Dist(component[j]) > Dist(component[i])
    IN [distance |-> Dist(component[k]), node_index |-> component[k],
        base_index |-> nn[component[k]]]

RECURSIVE ConnectFrom(_, _, _, _)
\* for component in components: two arcs of road_level 5, one in each direction
ConnectFrom(g, components, nn, k) ==
    IF k > Len(components) THEN g
    ELSE LET l == best_link(g, components[k], nn)
             info == [road_level |-> 5, distance |-> l.distance]
         IN ConnectFrom(add_edge(add_edge(g, l.node_index, l.base_index, info),
                                 l.base_index, l.node_index, info),
                        components, nn, k + 1)

SeqRange(s) == {s[i] : i \in 1..Len(s)}

\* the answers RTree::nearest_neighbor may give for the nodes outside the base
NearestChoices(g) ==
    LET components == kosaraju_scc(g)
        base == SeqRange(components[base_i(components)])
    IN {nn \in [NodeIdx(g) -> NodeIdx(g)] :
            \A n \in NodeIdx(g) :
                IF n \in base THEN nn[n] = n ELSE nn[n] \in NearestBase(g, base, n)}

\* Graph::strongly_connect, given the neighbour the spatial index returns for each node
strongly_connect(g, nn) ==
    LET components == kosaraju_scc(g)
        b == base_i(components)
        others == SubSeq(components, 1, b - 1) \o SubSeq(components, b + 1, Len(components))
    IN ConnectFrom(g, others, nn, 1)

\* the arcs an input may hold
InputArcs ==
    {[from |-> a, to |-> b, road_level |-> info.road_level, distance |-> info.distance] :
        a \in OsmIds, b \in OsmIds, info \in ArcInfos}

\* an order on the arcs, to list a set of arcs once
ArcKey(arc) == ((arc.from * 4 + arc.to) * 8 + arc.road_level) * 4 + arc.distance

\* the orders the arcs of list can be pushed in
Reorderings3(list) ==
    {[i \in 1..Len(list) |-> list[p[i]]] :
        p \in {q \in [1..Len(list) -> 1..Len(list)] :
                  \A i, j \in 1..Len(list) : q[i] = q[j] => i = j}}

ODInit ==
    /\ orderA = <<>>
    /\ orderB = <<>>
    /\ runA = GraphNew
    /\ runB = GraphNew
    /\ tablesA = <<>>
    /\ tablesB = <<>>
    /\ odStage = "input"
    /\ jb = <<>> /\ jbCalls = <<>>
    /\ cells = <<>> /\ workers = <<>> /\ atCalls = <<>>
    /\ nb = <<>> /\ nodes = <<>> /\ pushed = <<>>
    /\ graph = <<>> /\ arcs = {} /\ built = <<>> /\ stage = "idle" /\ file = <<>> /\ carto = <<>>
    /\ smK = 0 /\ stream = <<>> /\ plain = <<>> /\ strata = <<>> /\ minPrio = 0
    /\ smPhase = "idle" /\ smResult = <<>> /\ smByPrio = <<>>
    /\ roads = <<>> /\ cand = 0 /\ query = <<>> /\ singles = <<>> /\ multi = <<>>
    /\ rtPhase = "idle"
    /\ parts = <<>> /\ whole = <<>> /\ acc = <<>> /\ pending = {}
    /\ nbs = <<>> /\ fed = <<>> /\ cur = 0 /\ listed = <<>> /\ assembled = <<>>
    /\ osmWay = <<>> /\ store = <<>> /\ wayArcs = <<>> /\ wyPhase = "idle"
    /\ disk = <<>> /\ opened = <<>> /\ rdPhase = "idle"
    /\ profile = "none" /\ score = <<>> /\ exact = <<>> /\ hops = 0 /\ coPhase = "idle"
    /\ series = <<>> /\ builds = <<>> /\ encoded = <<>> /\ decoded = <<>> /\ dlPhase = "idle"
    /\ waysBlobs = <<>> /\ taskQ = <<>> /\ held = <<>> /\ resultQ = <<>> /\ pgraph = <<>>
    /\ plPhase = "idle"
    /\ ob = <<>> /\ oldNodes = <<>>
    /\ osmFile = <<>> /\ classified = <<>> /\ clPhase = "idle"
    /\ scBlobs = <<>> /\ scThreads = 0 /\ scTaken = 0 /\ scWorkers = <<>> /\ scStop = 0
    /\ scResults = <<>> /\ scMain = <<>> /\ scPhase = "idle"
    /\ nfFile = <<>> /\ nfJunctions = <<>> /\ nfQueue = <<>> /\ nfWorkers = <<>>
    /\ nfNodes = <<>> /\ nfPhase = "idle"

\* one more arc in the input
ODAddArc ==
    \E arc \in InputArcs :
        /\ odStage = "input"
        /\ Len(orderA) < MaxArcs
        /\ IF orderA = <<>> THEN TRUE ELSE ArcKey(orderA[Len(orderA)]) < ArcKey(arc)
        /\ orderA' = Append(orderA, arc)
        /\ UNCHANGED <<orderB, runA, runB, tablesA, tablesB, odStage>>
        /\ ODOnly

\* both runs build their graph, the second from the arcs in another order
ODBuild ==
    \E other \in Reorderings3(orderA) :
        /\ odStage = "input"
        /\ orderB' = other
        /\ runA' = PushArcs(GraphNew, orderA, 1)
        /\ runB' = PushArcs(GraphNew, other, 1)
        /\ odStage' = "build"
        /\ UNCHANGED <<orderA, tablesA, tablesB>>
        /\ ODOnly

\* generate (generator.rs) on both graphs: retain_reachable_nodes(2), fix_dead_ends,
\* strongly_connect and serialize; with no component there is no base and
\* max_by_key(..).unwrap() panics
ODGenerate ==
    /\ odStage = "build"
    /\ LET fixedA == fix_dead_ends(retain_reachable_nodes(runA, 2))
           fixedB == fix_dead_ends(retain_reachable_nodes(runB, 2))
       IN IF node_len(fixedA) = 0 \/ node_len(fixedB) = 0
          THEN /\ odStage' = "panic"
               /\ runA' = fixedA
               /\ runB' = fixedB
               /\ UNCHANGED <<tablesA, tablesB>>
          ELSE \E nnA \in NearestChoices(fixedA), nnB \in NearestChoices(fixedB) :
                  /\ runA' = strongly_connect(fixedA, nnA)
                  /\ runB' = strongly_connect(fixedB, nnB)
                  /\ tablesA' = serialize(strongly_connect(fixedA, nnA))
                  /\ tablesB' = serialize(strongly_connect(fixedB, nnB))
                  /\ odStage' = "serialized"
    /\ UNCHANGED <<orderA, orderB>>
    /\ ODOnly

ODNext == ODAddArc \/ ODBuild \/ ODGenerate

SpecOrder == ODInit /\ [][ODNext]_vars

\* the Vec kosaraju_scc returns lists the strongly connected components, each once
KosarajuListsComponents ==
    odStage \in {"build", "serialized"} =>
        LET components == kosaraju_scc(runA)
        IN /\ {SeqRange(components[i]) : i \in 1..Len(components)} = scc(runA)
           /\ Len(components) = Cardinality(scc(runA))
           /\ \A i \in 1..Len(components) : Len(components[i]) = Cardinality(SeqRange(components[i]))

\* C24: the output is determined by the input: for a fixed set of arcs, the graph
\* after retain_reachable_nodes, fix_dead_ends and strongly_connect, and the
\* serialized tables, are the same for every order the arcs are pushed in.
C24_OutputDeterminedByInput ==
    odStage = "serialized" =>
        /\ NodeIdsOf(runA) = NodeIdsOf(runB)
        /\ EdgesById(runA) = EdgesById(runB)
        /\ tablesA = tablesB

\* three closed ways, each a loop on a junction of its own: every node is a
\* component and no node has two nearest neighbours, yet the bridges differ
ThreeLoopsAgree ==
    (/\ odStage = "serialized"
     /\ Len(orderA) = 3
     /\ \A i \in 1..Len(orderA) : orderA[i].from = orderA[i].to /\ orderA[i].road_level = 2)
        => EdgesById(runA) = EdgesById(runB)

(***************************************************************************)
(* The order Unused < Internal < Junction along an execution of the        *)
(* junction pass: ways pushed to the builders of the threads, then the     *)
(* builders merged                                                         *)
(***************************************************************************)
\* the place of a node's state in the order
StateRank(b, offset) ==
    IF JBState(b, offset) = "Junction" THEN Junction
    ELSE IF JBState(b, offset) = "Internal" THEN Internal
    ELSE Unused

\* C22: the state of a node never moves down the order Unused < Internal <
\* Junction: every push_junction and push_internal of a push_way and every merge
\* leaves each node of a builder at least where it was (a Junction stays a
\* Junction), and a merge leaves it at least where the merged builder had it.
C22_StateNeverMovesDown ==
    [][\A n \in Offsets :
          /\ \A t \in Threads : StateRank(parts'[t], n) >= StateRank(parts[t], n)
          /\ StateRank(whole', n) >= StateRank(whole, n)
          /\ StateRank(acc', n) >= StateRank(acc, n)
          /\ \A t \in pending \ pending' : StateRank(acc', n) >= StateRank(parts[t], n)]_vars

\* a builder was merged into one that held more: a Junction of the collecting
\* builder met Unused and Internal in the builder merged last, two Internal made a
\* Junction, and a pushed Internal node was promoted before
C22_Witness ==
    /\ pending = {}
    /\ \E n, m, k \in Offsets, t \in Threads :
          /\ JBState(acc, n) = "Junction" /\ JBState(parts[t], n) = "Unused"
          /\ JBState(acc, m) = "Junction" /\ JBState(parts[t], m) = "Internal"
          /\ \A s \in Threads : JBState(parts[s], m) # "Junction"
          /\ JBState(acc, k) = "Internal"
    /\ \E n \in Offsets : JBState(whole, n) = "Junction" /\ ~(\E w \in Ways : Len(w) > 0 /\ (w[1] = n \/ w[Len(w)] = n))

(***************************************************************************)
(* Looking up ids that were never pushed, in the Nodes of generator2 and   *)
(* in the Nodes of generator/data_types/node.rs, built from the same nodes *)
(***************************************************************************)
\* nodes per page of the older builder (NODES_PER_PAGE, scaled down)
NodesPerPage == 2

\* nodes per index entry of the older builder (NODES_PER_INDEX, scaled down)
NodesPerIndex == 1

\* the ids looked up: every id that may be pushed, one below and one above
LookupIds == (I64Min)..(MaxNodeId + 1)

\* IndexEntry::new_partial
new_partial(page, page_start, global_offset) ==
    [min_id |-> 0, page |-> page, start |-> page_start, end |-> page_start,
     global_offset |-> global_offset]

\* IndexEntry::finish
entry_finish(entry, page) ==
    [entry EXCEPT !.min_id = page[entry.start + 1].id, !.end = Len(page)]

\* NodesBuilder::new(page_size, index_entry_size)
v1_new(page_size, index_entry_size) ==
    [partial_page |-> <<>>,
     partial_index |-> new_partial(0, 0, 0),
     prev_id |-> I64Min,
     page_size |-> page_size,
     index_entry_size |-> index_entry_size,
     len |-> 0,
     pages |-> <<>>,
     index |-> <<>>]

\* NodesBuilder::push, after its assert!(node.id > self.prev_id)
v1_push(b, node) ==
    LET page == Append(b.partial_page, node)
        len == b.len + 1
    IN IF Len(page) = b.page_size
       THEN [b EXCEPT !.prev_id = node.id,
                      !.len = len,
                      !.index = Append(@, entry_finish(b.partial_index, page)),
                      !.partial_index = new_partial(Len(b.pages) + 1, 0, len),
                      !.pages = Append(@, page),
                      !.partial_page = <<>>]
       ELSE IF Len(page) - b.partial_index.start = b.index_entry_size
       THEN [b EXCEPT !.prev_id = node.id,
                      !.len = len,
                      !.index = Append(@, entry_finish(b.partial_index, page)),
                      !.partial_index = new_partial(Len(b.pages), Len(page), len),
                      !.partial_page = page]
       ELSE [b EXCEPT !.prev_id = node.id, !.len = len, !.partial_page = page]

\* NodesBuilder::build; IndexEntry::finish reads page[page_range.start], which is
\* past the end when the last push closed an index entry inside the page
v1_build(b) ==
    IF Len(b.partial_page) = 0
    THEN [status |-> "ok", pages |-> b.pages, index |-> b.index, len |-> b.len]
    ELSE IF b.partial_index.start >= Len(b.partial_page)
    THEN [status |-> "panic"]
    ELSE [status |-> "ok",
          pages |-> Append(b.pages, b.partial_page),
          index |-> Append(b.index, entry_finish(b.partial_index, b.partial_page)),
          len |-> b.len]

\* Nodes::search of the older store
v1_search(ns, id) ==
    LET r == binary_search([e \in 1..Len(ns.index) |-> ns.index[e].min_id], id)
    IN IF ~r.ok /\ r.i = 0 THEN NotFound
       ELSE LET entry == ns.index[IF r.ok THEN r.i + 1 ELSE r.i]
                page_range == SubSeq(ns.pages[entry.page + 1], entry.start + 1, entry.end)
                s == binary_search([k \in 1..Len(page_range) |-> page_range[k].id], id)
            IN IF s.ok
               THEN [found |-> TRUE, page |-> entry.page, page_offset |-> entry.start + s.i,
                     global_offset |-> entry.global_offset + s.i]
               ELSE NotFound

\* Nodes::get
v1_get(ns, id) ==
    LET ans == v1_search(ns, id)
    IN IF ans.found
       THEN [found |-> TRUE, node |-> ns.pages[ans.page + 1][ans.page_offset + 1]]
       ELSE NotFound

\* Nodes::offset of the older store
v1_offset(ns, id) ==
    LET ans == v1_search(ns, id)
    IN IF ans.found THEN [found |-> TRUE, offset |-> ans.global_offset] ELSE NotFound

LKInit ==
    /\ nb = with_opts(IdsPerPage, IdsPerPage * PagesPerSection)
    /\ nodes = NoNodes
    /\ pushed = <<>>
    /\ ob = v1_new(NodesPerPage, NodesPerIndex)
    /\ oldNodes = <<>>
    /\ jb = <<>> /\ jbCalls = <<>>
    /\ cells = <<>> /\ workers = <<>> /\ atCalls = <<>>
    /\ graph = <<>> /\ arcs = {} /\ built = <<>> /\ stage = "idle" /\ file = <<>> /\ carto = <<>>
    /\ smK = 0 /\ stream = <<>> /\ plain = <<>> /\ strata = <<>> /\ minPrio = 0
    /\ smPhase = "idle" /\ smResult = <<>> /\ smByPrio = <<>>
    /\ roads = <<>> /\ cand = 0 /\ query = <<>> /\ singles = <<>> /\ multi = <<>>
    /\ rtPhase = "idle"
    /\ parts = <<>> /\ whole = <<>> /\ acc = <<>> /\ pending = {}
    /\ nbs = <<>> /\ fed = <<>> /\ cur = 0 /\ listed = <<>> /\ assembled = <<>>
    /\ osmWay = <<>> /\ store = <<>> /\ wayArcs = <<>> /\ wyPhase = "idle"
    /\ disk = <<>> /\ opened = <<>> /\ rdPhase = "idle"
    /\ profile = "none" /\ score = <<>> /\ exact = <<>> /\ hops = 0 /\ coPhase = "idle"
    /\ series = <<>> /\ builds = <<>> /\ encoded = <<>> /\ decoded = <<>> /\ dlPhase = "idle"
    /\ waysBlobs = <<>> /\ taskQ = <<>> /\ held = <<>> /\ resultQ = <<>> /\ pgraph = <<>>
    /\ plPhase = "idle"
    /\ orderA = <<>> /\ orderB = <<>> /\ runA = <<>> /\ runB = <<>>
    /\ tablesA = <<>> /\ tablesB = <<>> /\ odStage = "idle"
    /\ osmFile = <<>> /\ classified = <<>> /\ clPhase = "idle"
    /\ scBlobs = <<>> /\ scThreads = 0 /\ scTaken = 0 /\ scWorkers = <<>> /\ scStop = 0
    /\ scResults = <<>> /\ scMain = <<>> /\ scPhase = "idle"
    /\ nfFile = <<>> /\ nfJunctions = <<>> /\ nfQueue = <<>> /\ nfWorkers = <<>>
    /\ nfNodes = <<>> /\ nfPhase = "idle"

\* the nodes the generator2 store was built from go into the older builder, in order
LKPush ==
    /\ nodes # NoNodes
    /\ oldNodes = <<>>
    /\ ob.len < Len(pushed)
    /\ ob' = v1_push(ob, pushed[ob.len + 1])
    /\ UNCHANGED oldNodes
    /\ LKOnly

LKBuild ==
    /\ nodes # NoNodes
    /\ oldNodes = <<>>
    /\ ob.len = Len(pushed)
    /\ oldNodes' = v1_build(ob)
    /\ UNCHANGED ob
    /\ LKOnly

\* the generator2 builder is fed and built first, the older one after it
LKNext == NDPush \/ NDFinishBlock \/ NDBuild \/ LKPush \/ LKBuild

SpecLookup == LKInit /\ [][LKNext]_vars

\* the ids pushed
PushedIds == {pushed[k].id : k \in 1..Len(pushed)}

\* C23: looking up an id that was never pushed (below the smallest id, in a gap,
\* above the greatest, or the 0 that pads a block) returns no result from offset
\* and node of the generator2 store and from get and offset of the older store,
\* and len() counts the nodes pushed, not the padding.
C23_NeverPushedNotFound ==
    /\ nodes # NoNodes =>
          /\ nodes.len = Len(pushed)
          /\ \A id \in LookupIds \ PushedIds :
                /\ nodes_offset(nodes, id) = NotFound
                /\ nodes_node(nodes, id) = NotFound
    /\ (oldNodes # <<>> /\ oldNodes.status = "ok") =>
          /\ oldNodes.len = Len(pushed)
          /\ \A id \in LookupIds \ PushedIds :
                /\ v1_get(oldNodes, id) = NotFound
                /\ v1_offset(oldNodes, id) = NotFound

\* both stores are built; 0 was not pushed and pads a page that begins with a
\* negative id, so that 0 falls in the range of that page; an id in a gap and an id
\* below the smallest are missing, and the older store has two index entries
C23_Witness ==
    /\ nodes # NoNodes
    /\ oldNodes # <<>>
    /\ oldNodes.status = "ok"
    /\ Len(oldNodes.index) >= 2
    /\ 0 \notin PushedIds
    /\ -1 \in PushedIds
    /\ 2 \in PushedIds
    /\ 1 \notin PushedIds
    /\ \E s \in 1..Len(nodes.sections) :
          /\ Len(nodes.sections[s].ids) >= 2
          /\ nodes.sections[s].ids[1] = -1
          /\ nodes.sections[s].ids[2] = 0

(***************************************************************************)
(* Blob classifier (generator/data_types/osm_file.rs):                     *)
(* OSMClassifiedFile::from_file                                            *)
(***************************************************************************)
\* bound on the number of blobs of one kind in the file
MaxKindBlobs == 3

\* enum BlobType, in the order of its derive(Ord)
BlobTypeNodes == 0

BeforeWays == 1

BlobTypeWays == 2

BeforeRelations == 3

BlobTypeRelations == 4

\* a blob of the file: its place in the file and, for a data blob, the number of
\* elements of each kind in its one group
HeaderOf(seq) ==
    [seq |-> seq, header |-> TRUE, nodes |-> 0, dense |-> 0, ways |-> 0, relations |-> 0]

DataOf(seq, kind, count) ==
    [seq |-> seq, header |-> FALSE, nodes |-> 0,
     dense |-> IF kind = BlobTypeNodes THEN count ELSE 0,
     ways |-> IF kind = BlobTypeWays THEN count ELSE 0,
     relations |-> IF kind = BlobTypeRelations THEN count ELSE 0]

\* classify that takes a ways blob for a relations blob and the other way round
classify_ways_last(blob) ==
    CASE blob.nodes = 0 /\ blob.dense > 0 /\ blob.ways = 0 /\ blob.relations = 0 ->
            BlobTypeNodes
      [] blob.nodes = 0 /\ blob.dense = 0 /\ blob.ways > 0 /\ blob.relations = 0 ->
            BlobTypeRelations
      [] blob.nodes = 0 /\ blob.dense = 0 /\ blob.ways = 0 /\ blob.relations > 0 ->
            BlobTypeWays

\* classify: the element counts of the group; any other blob is unreachable!()
classify(blob) ==
    CASE blob.nodes = 0 /\ blob.dense > 0 /\ blob.ways = 0 /\ blob.relations = 0 ->
            BlobTypeNodes
      [] blob.nodes = 0 /\ blob.dense = 0 /\ blob.ways > 0 /\ blob.relations = 0 ->
            BlobTypeWays
      [] blob.nodes = 0 /\ blob.dense = 0 /\ blob.ways = 0 /\ blob.relations > 0 ->
            BlobTypeRelations

\* blobs.binary_search_by_key(&key, classify)
binary_search_by_key(blobs, key) ==
    binary_search([i \in 1..Len(blobs) |-> classify(blobs[i])], key)

\* OSMClassifiedFile::from_file; .err().unwrap() panics on a key that was found
from_file(blobs) ==
    LET header_blob == blobs[1]
        after_header == Tail(blobs)
        nodes_found == binary_search_by_key(after_header, BeforeWays)
        num_nodes_blobs == nodes_found.i
        after_nodes == SubSeq(after_header, num_nodes_blobs + 1, Len(after_header))
        ways_found == binary_search_by_key(after_nodes, BeforeRelations)
        num_ways_blobs == ways_found.i
    IN IF nodes_found.ok \/ ways_found.ok THEN [status |-> "panic"]
       ELSE [status |-> "ok",
             header_blob |-> header_blob,
             nodes_blobs |-> SubSeq(after_header, 1, num_nodes_blobs),
             ways_blobs |-> SubSeq(after_nodes, 1, num_ways_blobs),
             relations_blobs |-> SubSeq(after_nodes, num_ways_blobs + 1, Len(after_nodes))]

\* the blob is a data blob whose group holds elements of the kind only
IsKind(blob, kind) ==
    ~blob.header /\ blob = DataOf(blob.seq, kind, blob.dense + blob.ways + blob.relations)

\* how many blobs of the file hold elements of the kind
KindCount(kind) == Cardinality({i \in 1..Len(osmFile) : IsKind(osmFile[i], kind)})

\* OSMFile::from_mmap: the header blob is read
CLInit ==
    /\ osmFile = <<HeaderOf(1)>>
    /\ classified = <<>>
    /\ clPhase = "mapped"
    /\ jb = <<>> /\ jbCalls = <<>>
    /\ cells = <<>> /\ workers = <<>> /\ atCalls = <<>>
    /\ nb = <<>> /\ nodes = <<>> /\ pushed = <<>>
    /\ graph = <<>> /\ arcs = {} /\ built = <<>> /\ stage = "idle" /\ file = <<>> /\ carto = <<>>
    /\ smK = 0 /\ stream = <<>> /\ plain = <<>> /\ strata = <<>> /\ minPrio = 0
    /\ smPhase = "idle" /\ smResult = <<>> /\ smByPrio = <<>>
    /\ roads = <<>> /\ cand = 0 /\ query = <<>> /\ singles = <<>> /\ multi = <<>>
    /\ rtPhase = "idle"
    /\ parts = <<>> /\ whole = <<>> /\ acc = <<>> /\ pending = {}
    /\ nbs = <<>> /\ fed = <<>> /\ cur = 0 /\ listed = <<>> /\ assembled = <<>>
    /\ osmWay = <<>> /\ store = <<>> /\ wayArcs = <<>> /\ wyPhase = "idle"
    /\ disk = <<>> /\ opened = <<>> /\ rdPhase = "idle"
    /\ profile = "none" /\ score = <<>> /\ exact = <<>> /\ hops = 0 /\ coPhase = "idle"
    /\ series = <<>> /\ builds = <<>> /\ encoded = <<>> /\ decoded = <<>> /\ dlPhase = "idle"
    /\ waysBlobs = <<>> /\ taskQ = <<>> /\ held = <<>> /\ resultQ = <<>> /\ pgraph = <<>>
    /\ plPhase = "idle"
    /\ orderA = <<>> /\ orderB = <<>> /\ runA = <<>> /\ runB = <<>>
    /\ tablesA = <<>> /\ tablesB = <<>> /\ odStage = "idle"
    /\ ob = <<>> /\ oldNodes = <<>>
    /\ scBlobs = <<>> /\ scThreads = 0 /\ scTaken = 0 /\ scWorkers = <<>> /\ scStop = 0
    /\ scResults = <<>> /\ scMain = <<>> /\ scPhase = "idle"
    /\ nfFile = <<>> /\ nfJunctions = <<>> /\ nfQueue = <<>> /\ nfWorkers = <<>>
    /\ nfNodes = <<>> /\ nfPhase = "idle"

\* the reader yields the next data blob of the file: the kinds come in the order
\* nodes, ways, relations
CLReadBlob ==
    \E kind \in {BlobTypeNodes, BlobTypeWays, BlobTypeRelations}, count \in 1..2 :
        /\ clPhase = "mapped"
        /\ KindCount(kind) < MaxKindBlobs
        /\ \A i \in 2..Len(osmFile) : \E earlier \in 0..kind : IsKind(osmFile[i], earlier)
        /\ osmFile' = Append(osmFile, DataOf(Len(osmFile) + 1, kind, count))
        /\ UNCHANGED <<classified, clPhase>>
        /\ CLOnly

CLFromFile ==
    /\ clPhase = "mapped"
    /\ classified' = from_file(osmFile)
    /\ clPhase' = "classified"
    /\ UNCHANGED osmFile
    /\ CLOnly

CLNext == CLReadBlob \/ CLFromFile

SpecClassify == CLInit /\ [][CLNext]_vars

\* the blobs of the file that hold elements of the kind, in file order
BlobsOfKind(kind) ==
    SelectSeq(osmFile, LAMBDA blob : IsKind(blob, kind))

\* C37: for every blob sequence made of one header blob followed by n node
\* blobs, then w way blobs, then r relation blobs (n, w, r >= 0), the classifier
\* returns the first blob as header and exactly those n, w and r blobs as
\* nodes_blobs, ways_blobs and relations_blobs, each in file order.
C37_ClassifiedByKind ==
    clPhase = "classified" =>
        /\ classified.status = "ok"
        /\ classified.header_blob = osmFile[1]
        /\ classified.nodes_blobs = BlobsOfKind(BlobTypeNodes)
        /\ classified.ways_blobs = BlobsOfKind(BlobTypeWays)
        /\ classified.relations_blobs = BlobsOfKind(BlobTypeRelations)

\* a file with two node blobs, no way blob and three relation blobs
C37_Witness ==
    /\ clPhase = "classified"
    /\ classified.status = "ok"
    /\ Len(classified.nodes_blobs) = 2
    /\ Len(classified.ways_blobs) = 0
    /\ Len(classified.relations_blobs) = 3
    /\ classified.relations_blobs[1].seq = 4

(***************************************************************************)
(* The node scan (generator/parser/node.rs): parse_blobs_sequential and    *)
(* parse_blobs_parallel with its task channel, result channel and          *)
(* stop_after cell                                                         *)
(***************************************************************************)
\* bound on num_threads of the scan
MaxScanThreads == 3

\* the numbers of blobs handed to parse_blobs
ScanLengths == 0..3

\* std::usize::MAX in stop_after: no sequence number reaches it
NoLimit == -1

\* the blobs of the input: a header blob, and data blobs of one group of nodes, of
\* one group of other elements, of a group of nodes and a group of other
\* elements, and of no group at all; a group is TRUE when it holds nodes
ScanBlobKinds ==
    {[data |-> FALSE, groups |-> <<>>],
     [data |-> TRUE, groups |-> <<TRUE>>],
     [data |-> TRUE, groups |-> <<FALSE>>],
     [data |-> TRUE, groups |-> <<TRUE, FALSE>>],
     [data |-> TRUE, groups |-> <<>>]}

\* the blobs of a file: the header blob first, data blobs after it
ScanInputs ==
    {blobs \in UNION {[1..n -> ScanBlobKinds] : n \in ScanLengths} :
        \A i \in 1..Len(blobs) : blobs[i].data <=> i > 1}

\* the ids of the nodes of the blob with the sequence number: one node per group
\* of nodes, ids ascending along the file
NodesOfBlob(seq, blob) ==
    LET RECURSIVE from(_)
        from(i) == IF i > Len(blob.groups) THEN <<>>
                   ELSE (IF blob.groups[i] THEN <<10 * seq + i>> ELSE <<>>) \o from(i + 1)
    IN from(1)

\* parse_blob: the nodes, and the blob back unless it was fully consumed
parse_blob(seq, blob) ==
    IF blob.data
    THEN [seq |-> seq,
          nodes |-> NodesOfBlob(seq, blob),
          blob |-> IF \A i \in 1..Len(blob.groups) : blob.groups[i] THEN None ELSE Some(seq)]
    ELSE [seq |-> seq, nodes |-> <<>>, blob |-> Some(seq)]

RECURSIVE SequentialFrom(_, _, _)
SequentialFrom(blobs, i, out) ==
    IF i > Len(blobs) THEN out
    ELSE LET res == parse_blob(i - 1, blobs[i])
         IN SequentialFrom(blobs, i + 1,
                [builder |-> out.builder \o res.nodes,
                 other_blobs |-> out.other_blobs \o res.blob])

\* parse_blobs_sequential: the nodes pushed to the builder and the blobs left
parse_blobs_sequential(blobs) ==
    SequentialFrom(blobs, 1, [builder |-> <<>>, other_blobs |-> <<>>])

\* seq > stop_after.load() and seq < stop_after.load(), on usize
AboveStop(seq, stop) == stop # NoLimit /\ seq > stop

BelowStop(seq, stop) == stop = NoLimit \/ seq < stop

\* crossbeam::bounded::<TaskResult>(0 * num_threads)
result_capacity_none(num_threads) == 0

\* crossbeam::bounded::<TaskResult>(2 * num_threads)
result_capacity(num_threads) == 2 * num_threads

\* the builder and other_blobs take one result
PushResult(main, res) ==
    [main EXCEPT !.builder = @ \o res.nodes,
                 !.other_blobs = @ \o res.blob,
                 !.batches = Append(@, res.seq),
                 !.next_seq = @ + 1]

RECURSIVE DrainOutOfOrder(_)
\* while out_of_order.first().map(|res| res.seq) == Some(next_seq)
DrainOutOfOrder(main) ==
    IF main.out_of_order # <<>> /\ main.out_of_order[1].seq = main.next_seq
    THEN DrainOutOfOrder(
             PushResult([main EXCEPT !.out_of_order = Tail(@)], main.out_of_order[1]))
    ELSE main

\* the body of the loop over the results that keeps out_of_order as it filled up
consume_unsorted(main, res) ==
    IF res.seq = main.next_seq THEN DrainOutOfOrder(PushResult(main, res))
    ELSE [main EXCEPT !.out_of_order = Append(@, res)]

\* the body of the loop over the results
consume(main, res) ==
    IF res.seq = main.next_seq THEN DrainOutOfOrder(PushResult(main, res))
    ELSE [main EXCEPT !.out_of_order =
              sort_by_key(Append(@, res),
                          [i \in 1..(Len(@) + 1) |-> <<Append(@, res)[i].seq>>])]

ScanWorkers == 1..scThreads

IdleScanner == [pc |-> "idle", seq |-> 0, res |-> <<>>]

\* the task channel is filled, the result channel and stop_after are created and
\* the threads are spawned
SCInit ==
    \E blobs \in ScanInputs, num_threads \in 1..MaxScanThreads :
        /\ scBlobs = blobs
        /\ scThreads = num_threads
        /\ scTaken = 0
        /\ scWorkers = [w \in 1..num_threads |-> IdleScanner]
        /\ scStop = NoLimit
        /\ scResults = <<>>
        /\ scMain = [builder |-> <<>>, other_blobs |-> <<>>, out_of_order |-> <<>>,
                     next_seq |-> 0, batches |-> <<>>, held |-> 0, waited |-> FALSE]
        /\ scPhase = "running"
    /\ jb = <<>> /\ jbCalls = <<>>
    /\ cells = <<>> /\ workers = <<>> /\ atCalls = <<>>
    /\ nb = <<>> /\ nodes = <<>> /\ pushed = <<>>
    /\ graph = <<>> /\ arcs = {} /\ built = <<>> /\ stage = "idle" /\ file = <<>> /\ carto = <<>>
    /\ smK = 0 /\ stream = <<>> /\ plain = <<>> /\ strata = <<>> /\ minPrio = 0
    /\ smPhase = "idle" /\ smResult = <<>> /\ smByPrio = <<>>
    /\ roads = <<>> /\ cand = 0 /\ query = <<>> /\ singles = <<>> /\ multi = <<>>
    /\ rtPhase = "idle"
    /\ parts = <<>> /\ whole = <<>> /\ acc = <<>> /\ pending = {}
    /\ nbs = <<>> /\ fed = <<>> /\ cur = 0 /\ listed = <<>> /\ assembled = <<>>
    /\ osmWay = <<>> /\ store = <<>> /\ wayArcs = <<>> /\ wyPhase = "idle"
    /\ disk = <<>> /\ opened = <<>> /\ rdPhase = "idle"
    /\ profile = "none" /\ score = <<>> /\ exact = <<>> /\ hops = 0 /\ coPhase = "idle"
    /\ series = <<>> /\ builds = <<>> /\ encoded = <<>> /\ decoded = <<>> /\ dlPhase = "idle"
    /\ waysBlobs = <<>> /\ taskQ = <<>> /\ held = <<>> /\ resultQ = <<>> /\ pgraph = <<>>
    /\ plPhase = "idle"
    /\ orderA = <<>> /\ orderB = <<>> /\ runA = <<>> /\ runB = <<>>
    /\ tablesA = <<>> /\ tablesB = <<>> /\ odStage = "idle"
    /\ ob = <<>> /\ oldNodes = <<>>
    /\ osmFile = <<>> /\ classified = <<>> /\ clPhase = "idle"
    /\ nfFile = <<>> /\ nfJunctions = <<>> /\ nfQueue = <<>> /\ nfWorkers = <<>>
    /\ nfNodes = <<>> /\ nfPhase = "idle"

\* for (seq, blob) in task_receiver: a worker takes the next task
SCTake ==
    \E w \in ScanWorkers :
        /\ scWorkers[w].pc = "idle"
        /\ scTaken < Len(scBlobs)
        /\ scWorkers' = [scWorkers EXCEPT ![w] = [pc |-> "taken", seq |-> scTaken, res |-> <<>>]]
        /\ scTaken' = scTaken + 1
        /\ UNCHANGED <<scBlobs, scThreads, scStop, scResults, scMain, scPhase>>
        /\ SCOnly

\* the task channel is empty and closed: the loop of a worker that got no task
\* ends
SCExit ==
    \E w \in ScanWorkers :
        /\ scWorkers[w].pc = "idle"
        /\ scTaken = Len(scBlobs)
        /\ scWorkers' = [scWorkers EXCEPT ![w].pc = "done"]
        /\ UNCHANGED <<scBlobs, scThreads, scTaken, scStop, scResults, scMain, scPhase>>
        /\ SCOnly

\* the first load of stop_after: the blob is handed back unparsed, or parsed
SCParse ==
    \E w \in ScanWorkers :
        /\ scWorkers[w].pc = "taken"
        /\ LET seq == scWorkers[w].seq
           IN scWorkers' = [scWorkers EXCEPT ![w] =
                  IF AboveStop(seq, scStop)
                  THEN [pc |-> "send", seq |-> seq,
                        res |-> [seq |-> seq, nodes |-> <<>>, blob |-> Some(seq)]]
                  ELSE [pc |-> "parsed", seq |-> seq,
                        res |-> parse_blob(seq, scBlobs[seq + 1])]]
        /\ UNCHANGED <<scBlobs, scThreads, scTaken, scStop, scResults, scMain, scPhase>>
        /\ SCOnly

\* the second load of stop_after, in the condition of the store
SCCheck ==
    \E w \in ScanWorkers :
        /\ scWorkers[w].pc = "parsed"
        /\ LET me == scWorkers[w]
           IN scWorkers' = [scWorkers EXCEPT ![w].pc =
                  IF me.seq > 0 /\ me.res.blob # None /\ BelowStop(me.seq, scStop)
                  THEN "store" ELSE "send"]
        /\ UNCHANGED <<scBlobs, scThreads, scTaken, scStop, scResults, scMain, scPhase>>
        /\ SCOnly

\* stop_after.store(seq)
SCStore ==
    \E w \in ScanWorkers :
        /\ scWorkers[w].pc = "store"
        /\ scStop' = scWorkers[w].seq
        /\ scWorkers' = [scWorkers EXCEPT ![w].pc = "send"]
        /\ UNCHANGED <<scBlobs, scThreads, scTaken, scResults, scMain, scPhase>>
        /\ SCOnly

\* result_sender.send(..): waits while the channel is full; back at the head of
\* its loop the worker finds the task channel empty and closed, or not
SCSend ==
    \E w \in ScanWorkers :
        /\ scWorkers[w].pc = "send"
        /\ Len(scResults) < result_capacity(scThreads)
        /\ scResults' = Append(scResults, scWorkers[w].res)
        /\ scWorkers' = [scWorkers EXCEPT ![w] =
               IF scTaken = Len(scBlobs) THEN [IdleScanner EXCEPT !.pc = "done"]
               ELSE IdleScanner]
        /\ UNCHANGED <<scBlobs, scThreads, scTaken, scStop, scMain, scPhase>>
        /\ SCOnly

\* for res in result_receiver: the consuming thread takes one result
SCConsume ==
    /\ scPhase = "running"
    /\ scResults # <<>>
    /\ scResults' = Tail(scResults)
    /\ scMain' = [consume(scMain, Head(scResults)) EXCEPT
                     !.held = IF Head(scResults).seq # scMain.next_seq THEN @ + 1 ELSE @,
                     !.waited = @ \/ (/\ Len(scResults) = result_capacity(scThreads)
                                      /\ \E w \in ScanWorkers : scWorkers[w].pc = "send")]
    /\ UNCHANGED <<scBlobs, scThreads, scTaken, scWorkers, scStop, scPhase>>
    /\ SCOnly

\* every sender is dropped and the channel is empty: the loop over the results
\* ends and (builder.build(), other_blobs) is returned
SCFinish ==
    /\ scPhase = "running"
    /\ scResults = <<>>
    /\ \A w \in ScanWorkers : scWorkers[w].pc = "done"
    /\ scPhase' = "done"
    /\ UNCHANGED <<scBlobs, scThreads, scTaken, scWorkers, scStop, scResults, scMain>>
    /\ SCOnly

SCNext ==
    \/ SCTake
    \/ SCExit
    \/ SCParse
    \/ SCCheck
    \/ SCStore
    \/ SCSend
    \/ SCConsume
    \/ SCFinish

SpecScan == SCInit /\ [][SCNext]_vars

\* C31: in the parallel node scan the node batch of every blob is pushed into
\* the NodesBuilder exactly once and in ascending blob sequence number, and the
\* blobs that were not fully consumed are returned in their original file
\* order, for every order in which workers finish; when the result channel
\* closes, the out-of-order buffer is empty.
C31_BatchesInSequence ==
    /\ scPhase \in {"running", "done"} =>
          /\ scMain.batches = [i \in 1..Len(scMain.batches) |-> i - 1]
          /\ \A i, j \in 1..Len(scMain.other_blobs) :
                i < j => scMain.other_blobs[i] < scMain.other_blobs[j]
    /\ scPhase = "done" =>
          /\ Len(scMain.batches) = Len(scBlobs)
          /\ scMain.out_of_order = <<>>

\* three blobs went through three workers; two results came before their turn
\* and went through out_of_order, nodes were pushed and two blobs came back
C31_Witness ==
    /\ scPhase = "done"
    /\ Len(scBlobs) = 3
    /\ scThreads = 3
    /\ scMain.held = 2
    /\ Len(scMain.other_blobs) = 2
    /\ scMain.builder # <<>>

\* C32: at every moment the stop-after cell holds either its initial no-limit
\* value or the smallest sequence number among the blobs (other than blob 0)
\* that some worker has finished parsing and found to contain non-node data: a
\* worker never leaves in the cell a sequence number larger than one another
\* worker has already stored.
C32_StopAfterOnlyDecreases ==
    [][scStop' # scStop => (scStop = NoLimit \/ scStop' < scStop)]_vars

\* no blob after the first blob with non-node data, blob 0 apart, holds nodes
NoNodesAfterOthers(blobs) ==
    \A i \in 2..Len(blobs) :
        parse_blob(i - 1, blobs[i]).blob # None =>
            \A j \in (i + 1)..Len(blobs) : parse_blob(j - 1, blobs[j]).nodes = <<>>

\* C33: the short-circuit of the node-blob scanner loses no node: for every
\* input in which no blob after the first blob with non-node data contains
\* nodes, parse_blobs returns, for every thread count and every interleaving,
\* the same stored node sequence and the same list of leftover blobs as the
\* sequential scan. parse_blobs hands the blobs to the parallel scan when
\* num_threads is not 1.
C33_ScanAsSequential ==
    (scPhase = "done" /\ scThreads # 1 /\ NoNodesAfterOthers(scBlobs)) =>
        /\ scMain.builder = parse_blobs_sequential(scBlobs).builder
        /\ scMain.other_blobs = parse_blobs_sequential(scBlobs).other_blobs

\* the same, for the inputs whose data blobs all hold at least one group
ScanAsSequentialWithGroups ==
    (/\ scPhase = "done"
     /\ NoNodesAfterOthers(scBlobs)
     /\ \A i \in 1..Len(scBlobs) : scBlobs[i].data => scBlobs[i].groups # <<>>) =>
        /\ scMain.builder = parse_blobs_sequential(scBlobs).builder
        /\ scMain.other_blobs = parse_blobs_sequential(scBlobs).other_blobs

\* the nodes are the same whatever the blobs hold
ScanNodesAsSequential ==
    (scPhase = "done" /\ NoNodesAfterOthers(scBlobs)) =>
        scMain.builder = parse_blobs_sequential(scBlobs).builder

\* the threads of the scan run and the consuming thread reads the channel for as
\* long as it is open: a step that stays possible is taken
SpecScanFair == SCInit /\ [][SCNext]_vars /\ WF_vars(SCNext)

\* every blob went through the stage exactly once and the stage is over
ScanStageOver ==
    /\ scPhase = "done"
    /\ scTaken = Len(scBlobs)
    /\ \A w \in ScanWorkers : scWorkers[w].pc = "done"
    /\ scResults = <<>>
    /\ \A seq \in 0..(Len(scBlobs) - 1) :
          Cardinality({i \in 1..Len(scMain.batches) : scMain.batches[i] = seq}) = 1

\* C36: in a parallel stage every queued blob is taken by exactly one worker and
\* processed exactly once, and the stage terminates with all workers finished
\* and every result consumed, for every number of blobs and every worker count
\* of at least 1; the bounded result channel never leaves a worker and the main
\* thread waiting on each other.
C36_StageTerminates == <>[]ScanStageOver

\* one worker, three blobs: the worker found the result channel full, the
\* consuming thread made room, and the stage ended
C36_Witness ==
    /\ ScanStageOver
    /\ scThreads = 1
    /\ Len(scBlobs) = 3
    /\ scMain.waited

\* the arc extraction under the same scheduling
SpecParallelFair == PLInit /\ [][PLNext]_vars /\ WF_vars(PLNext)

ParallelArcsTerminates == <>[](plPhase = "done" /\ taskQ = <<>> /\ resultQ = <<>>)

(***************************************************************************)
(* Junction pass, per-worker node scan and the node lookups of the arc     *)
(* extraction (generator2/parser/junction.rs, generator2/parser/node.rs,   *)
(* generator2/data_types/junction.rs, generator/parser/graph.rs)           *)
(***************************************************************************)
\* largest number of worker threads of the two passes
MaxNodeWorkers == 2

\* the node ids of a file: a negative one, the zero that pads the pages, a positive one
FileNodeIds == {-1, 0, 1}

\* a road way has up to three refs (two ends and an internal one), any other way one
RefsOfLen(n) == [1..n -> FileNodeIds]

FileWays ==
    {[road |-> TRUE, refs |-> r] : r \in RefsOfLen(1) \cup RefsOfLen(2) \cup RefsOfLen(3)}
        \cup {[road |-> FALSE, refs |-> r] : r \in RefsOfLen(1)}

\* the numbers of refs that the ways of a file hold together
FileRefCounts == 0..4

\* ways blobs of one way each
FileWaysBlobs ==
    {<<>>} \cup {<<<<a>>>> : a \in FileWays}
        \cup {ws \in {<<<<a>>, <<b>>>> : a, b \in FileWays} :
                    Len(ws[1][1].refs) + Len(ws[2][1].refs) \in FileRefCounts}

StrictlyAscending(s) == \A i \in 1..(Len(s) - 1) : s[i] < s[i + 1]

\* the ids of one node blob: not empty, ascending
BlobIds == {s \in RefsOfLen(1) \cup RefsOfLen(2) \cup RefsOfLen(3) : StrictlyAscending(s)}

\* node blobs in file order: the ids ascend inside a blob and from a blob to the next
FileNodesBlobs ==
    {bs \in {<<>>} \cup [1..1 -> BlobIds] \cup [1..2 -> BlobIds] \cup [1..3 -> BlobIds] :
        \A i \in 1..(Len(bs) - 1) : bs[i][Len(bs[i])] < bs[i + 1][1]}

JunctionsBuilderNew == [junction_nodes |-> <<>>, used_nodes |-> <<>>]

handle_junction(b, node) ==
    [junction_nodes |-> Append(b.junction_nodes, node), used_nodes |-> Append(b.used_nodes, node)]

handle_internal(b, node) == [b EXCEPT !.used_nodes = Append(@, node)]

RECURSIVE HandleRefs(_, _, _)
\* the loop over node_ids.enumerate() of parse_ways, i counted from 0
HandleRefs(node_ids, i, builder) ==
    IF i = Len(node_ids) THEN builder
    ELSE HandleRefs(node_ids, i + 1,
            IF i = 0 \/ i = Len(node_ids) - 1
            THEN handle_junction(builder, node_ids[i + 1])
            ELSE handle_internal(builder, node_ids[i + 1]))

RECURSIVE junction_parse_ways(_, _)
\* parse_ways of the junction pass: only the ways that are roads
junction_parse_ways(ways, builder) ==
    IF ways = <<>> THEN builder
    ELSE junction_parse_ways(Tail(ways),
            IF Head(ways).road THEN HandleRefs(Head(ways).refs, 0, builder) ELSE builder)

\* JunctionsBuilder::sort
builder_sort(b) ==
    [junction_nodes |-> sort_by_key(b.junction_nodes,
                            [i \in 1..Len(b.junction_nodes) |-> <<b.junction_nodes[i]>>]),
     used_nodes |-> sort_by_key(b.used_nodes,
                            [i \in 1..Len(b.used_nodes) |-> <<b.used_nodes[i]>>])]

RECURSIVE SortedSlices(_)
\* the iterator over several sorted slices: the least first element, the first
\* slice that holds it, is taken off its slice
SortedSlices(slices) ==
    LET live == SelectSeq(slices, LAMBDA s : s # <<>>)
    IN IF live = <<>> THEN <<>>
       ELSE LET min == CHOOSE i \in 1..Len(live) :
                           /\ \A j \in 1..Len(live) : live[i][1] <= live[j][1]
                           /\ \A j \in 1..(i - 1) : live[j][1] > live[i][1]
            IN <<live[min][1]>> \o SortedSlices([live EXCEPT ![min] = Tail(@)])

RECURSIVE UsedAndPromotions(_, _, _)
\* the first loop of Junctions::from_builders
UsedAndPromotions(node_ids, used_nodes, promotions) ==
    IF node_ids = <<>> THEN [used_nodes |-> used_nodes, promotions |-> promotions]
    ELSE LET node_id == Head(node_ids)
             last_used == IF used_nodes = <<>> THEN <<>> ELSE <<used_nodes[Len(used_nodes)]>>
             last_promoted == IF promotions = <<>> THEN <<>> ELSE <<promotions[Len(promotions)]>>
         IN IF last_used # <<node_id>>
            THEN UsedAndPromotions(Tail(node_ids), Append(used_nodes, node_id), promotions)
            ELSE IF last_promoted # <<node_id>>
            THEN UsedAndPromotions(Tail(node_ids), used_nodes, Append(promotions, node_id))
            ELSE UsedAndPromotions(Tail(node_ids), used_nodes, promotions)

RECURSIVE MergeJunctions(_, _)
\* the second loop of Junctions::from_builders
MergeJunctions(node_ids, junction_nodes) ==
    IF node_ids = <<>> THEN junction_nodes
    ELSE MergeJunctions(Tail(node_ids),
            IF junction_nodes # <<>> /\ junction_nodes[Len(junction_nodes)] = Head(node_ids)
            THEN junction_nodes
            ELSE Append(junction_nodes, Head(node_ids)))

\* Junctions::from_builders
junctions_from_builders(builders) ==
    LET used_slices == [i \in 1..Len(builders) |-> builders[i].used_nodes]
        first == UsedAndPromotions(SortedSlices(used_slices), <<>>, <<>>)
        junction_slices ==
            [i \in 1..Len(builders) |-> builders[i].junction_nodes] \o <<first.promotions>>
    IN [junction_nodes |-> MergeJunctions(SortedSlices(junction_slices), <<>>),
        used_nodes |-> first.used_nodes]

\* only the ends of the ways are looked at
is_used_ends_only(junctions, node) == binary_search(junctions.junction_nodes, node).ok

\* Junctions::is_used
is_used(junctions, node) == binary_search(junctions.used_nodes, node).ok

RECURSIVE TakenBy(_, _, _)
\* the ways blobs that a worker takes out of the queue, in the order of the queue
TakenBy(assign, w, i) ==
    IF i > Len(assign) THEN <<>>
    ELSE (IF assign[i] = w THEN <<i>> ELSE <<>>) \o TakenBy(assign, w, i + 1)

RECURSIVE ParseTaken(_, _, _)
ParseTaken(ways_blobs, taken, builder) ==
    IF taken = <<>> THEN builder
    ELSE ParseTaken(ways_blobs, Tail(taken), junction_parse_ways(ways_blobs[Head(taken)], builder))

\* junction::parse_file: assign[i] is the worker that takes the i-th ways blob; one
\* thread is the sequential pass, which is the pass of one worker
junction_parse_file(ways_blobs, num_threads, assign) ==
    junctions_from_builders(
        [w \in 1..num_threads |->
            builder_sort(ParseTaken(ways_blobs, TakenBy(assign, w, 1), JunctionsBuilderNew))])

\* the newest task of the channel is taken
recv_newest(queue) ==
    [task |-> queue[Len(queue)], rest |-> SubSeq(queue, 1, Len(queue) - 1)]

\* Receiver::recv on a channel that is not empty: the oldest task
recv(queue) == [task |-> Head(queue), rest |-> Tail(queue)]

RECURSIVE PushUsed(_, _, _)
\* the closure of parse_nodes over the nodes of the blob; the assert of
\* NodesBuilder::push ends the thread
PushUsed(ids, junctions, w) ==
    IF ids = <<>> \/ w.panicked THEN w
    ELSE PushUsed(Tail(ids), junctions,
            IF ~is_used(junctions, Head(ids)) THEN w
            ELSE IF Head(ids) > w.builder.last_id
            THEN [w EXCEPT !.builder = builder_push(@, [id |-> Head(ids), point |-> <<0, 0>>,
                                                        barrier |-> FALSE]),
                           !.ids = Append(@, Head(ids))]
            ELSE [w EXCEPT !.panicked = TRUE])

\* parse_nodes
parse_nodes(nodes_blob, junctions, w) ==
    LET p == PushUsed(nodes_blob, junctions, w)
    IN IF p.panicked THEN p ELSE [p EXCEPT !.builder = finish_block(@)]

NodeWorkers == DOMAIN nfWorkers

NFInit ==
    /\ \E nodes_blobs \in FileNodesBlobs, ways_blobs \in FileWaysBlobs :
          nfFile = [nodes_blobs |-> nodes_blobs, ways_blobs |-> ways_blobs]
    /\ nfJunctions = <<>>
    /\ nfQueue = <<>>
    /\ \E num_threads \in 1..MaxNodeWorkers :
          nfWorkers = [w \in 1..num_threads |-> [state |-> "unborn"]]
    /\ nfNodes = NoNodes
    /\ nfPhase = "junctions"
    /\ jb = <<>> /\ jbCalls = <<>>
    /\ cells = <<>> /\ workers = <<>> /\ atCalls = <<>>
    /\ nb = <<>> /\ nodes = <<>> /\ pushed = <<>>
    /\ graph = <<>> /\ arcs = {} /\ built = <<>> /\ stage = "idle" /\ file = <<>> /\ carto = <<>>
    /\ smK = 0 /\ stream = <<>> /\ plain = <<>> /\ strata = <<>> /\ minPrio = 0
    /\ smPhase = "idle" /\ smResult = <<>> /\ smByPrio = <<>>
    /\ roads = <<>> /\ cand = 0 /\ query = <<>> /\ singles = <<>> /\ multi = <<>>
    /\ rtPhase = "idle"
    /\ parts = <<>> /\ whole = <<>> /\ acc = <<>> /\ pending = {}
    /\ nbs = <<>> /\ fed = <<>> /\ cur = 0 /\ listed = <<>> /\ assembled = <<>>
    /\ osmWay = <<>> /\ store = <<>> /\ wayArcs = <<>> /\ wyPhase = "idle"
    /\ disk = <<>> /\ opened = <<>> /\ rdPhase = "idle"
    /\ profile = "none" /\ score = <<>> /\ exact = <<>> /\ hops = 0 /\ coPhase = "idle"
    /\ series = <<>> /\ builds = <<>> /\ encoded = <<>> /\ decoded = <<>> /\ dlPhase = "idle"
    /\ waysBlobs = <<>> /\ taskQ = <<>> /\ held = <<>> /\ resultQ = <<>> /\ pgraph = <<>>
    /\ plPhase = "idle"
    /\ orderA = <<>> /\ orderB = <<>> /\ runA = <<>> /\ runB = <<>>
    /\ tablesA = <<>> /\ tablesB = <<>> /\ odStage = "idle"
    /\ ob = <<>> /\ oldNodes = <<>>
    /\ osmFile = <<>> /\ classified = <<>> /\ clPhase = "idle"
    /\ scBlobs = <<>> /\ scThreads = 0 /\ scTaken = 0 /\ scWorkers = <<>> /\ scStop = 0
    /\ scResults = <<>> /\ scMain = <<>> /\ scPhase = "idle"

\* the junction pass over the ways blobs, every worker taking any of the blobs
NFJunctionPass ==
    \E assign \in [1..Len(nfFile.ways_blobs) -> NodeWorkers] :
        /\ nfPhase = "junctions"
        /\ nfJunctions' = junction_parse_file(nfFile.ways_blobs, Len(nfWorkers), assign)
        /\ nfPhase' = "spawn"
        /\ UNCHANGED <<nfFile, nfQueue, nfWorkers, nfNodes>>
        /\ NFOnly

\* the node blobs are queued in file order and the workers start with an empty builder
NFSpawn ==
    /\ nfPhase = "spawn"
    /\ nfQueue' = nfFile.nodes_blobs
    /\ nfWorkers' = [w \in NodeWorkers |->
                        [state |-> "idle", blob |-> <<>>, ids |-> <<>>, panicked |-> FALSE,
                         builder |-> with_opts(IdsPerPage, IdsPerPage * PagesPerSection)]]
    /\ nfPhase' = "nodes"
    /\ UNCHANGED <<nfFile, nfJunctions, nfNodes>>
    /\ NFOnly

\* a worker takes the next blob of the channel
NFTake ==
    \E w \in NodeWorkers :
        /\ nfPhase = "nodes"
        /\ nfWorkers[w].state = "idle"
        /\ nfQueue # <<>>
        /\ nfWorkers' = [nfWorkers EXCEPT ![w].state = "parsing", ![w].blob = recv(nfQueue).task]
        /\ nfQueue' = recv(nfQueue).rest
        /\ UNCHANGED <<nfFile, nfJunctions, nfNodes, nfPhase>>
        /\ NFOnly

\* the worker parses its blob and comes back to the channel, which ends its loop
\* when it is empty
NFParse ==
    \E w \in NodeWorkers :
        /\ nfPhase = "nodes"
        /\ nfWorkers[w].state = "parsing"
        /\ LET p == parse_nodes(nfWorkers[w].blob, nfJunctions, nfWorkers[w])
           IN nfWorkers' = [nfWorkers EXCEPT ![w] =
                  [p EXCEPT !.blob = <<>>,
                            !.state = IF p.panicked THEN "panicked"
                                      ELSE IF nfQueue = <<>> THEN "done" ELSE "idle"]]
        /\ UNCHANGED <<nfFile, nfJunctions, nfQueue, nfNodes, nfPhase>>
        /\ NFOnly

\* a worker that finds the channel empty and closed returns its builder
NFExit ==
    \E w \in NodeWorkers :
        /\ nfPhase = "nodes"
        /\ nfWorkers[w].state = "idle"
        /\ nfQueue = <<>>
        /\ nfWorkers' = [nfWorkers EXCEPT ![w].state = "done"]
        /\ UNCHANGED <<nfFile, nfJunctions, nfQueue, nfNodes, nfPhase>>
        /\ NFOnly

\* the threads are joined in the order they were spawned; the panic of a worker
\* is the panic of the join
NFBuild ==
    /\ nfPhase = "nodes"
    /\ \A w \in NodeWorkers : nfWorkers[w].state \in {"done", "panicked"}
    /\ IF \E w \in NodeWorkers : nfWorkers[w].panicked
       THEN /\ nfPhase' = "push panicked"
            /\ UNCHANGED nfNodes
       ELSE /\ nfNodes' = from_builders([w \in NodeWorkers |-> nfWorkers[w].builder])
            /\ nfPhase' = "ways"
    /\ UNCHANGED <<nfFile, nfJunctions, nfQueue, nfWorkers>>
    /\ NFOnly

\* the ways of the file, blob after blob
AllWays == ConcatRange(nfFile.ways_blobs, 1, Len(nfFile.ways_blobs))

\* the arc extraction looks up every ref of every road way and unwraps the answer
NFExtract ==
    /\ nfPhase = "ways"
    /\ nfPhase' = IF \A i \in 1..Len(AllWays) :
                        AllWays[i].road =>
                            \A k \in 1..Len(AllWays[i].refs) :
                                nodes_node(nfNodes, AllWays[i].refs[k]).found
                  THEN "done" ELSE "lookup panicked"
    /\ UNCHANGED <<nfFile, nfJunctions, nfQueue, nfWorkers, nfNodes>>
    /\ NFOnly

NFNext == NFJunctionPass \/ NFSpawn \/ NFTake \/ NFParse \/ NFExit \/ NFBuild \/ NFExtract

SpecNodeFile == NFInit /\ [][NFNext]_vars

\* the ids of the node blobs of the file
InputNodeIds == UNION {Range(nfFile.nodes_blobs[i]) : i \in 1..Len(nfFile.nodes_blobs)}

\* the ids referenced by the road ways of the file
RoadRefs == UNION {Range(AllWays[i].refs) : i \in {j \in 1..Len(AllWays) : AllWays[j].road}}

\* C34: the node store built after the junction pass holds exactly the nodes of the
\* file whose id is a ref of some road way, so when every ref of the road ways is
\* a node of the file, every lookup of the arc extraction succeeds.
C34_StoreHoldsUsedNodes ==
    nfPhase \in {"ways", "done", "lookup panicked"} =>
        /\ \A id \in FileNodeIds :
              nodes_node(nfNodes, id).found <=> id \in InputNodeIds \cap RoadRefs
        /\ nfNodes.len = Cardinality(InputNodeIds \cap RoadRefs)
        /\ RoadRefs \subseteq InputNodeIds => nfPhase # "lookup panicked"

\* the arc extraction ran over a road way with an internal node and another way
\* that is no road; one node of the file is on no road, and two workers hold
\* nodes of the store
C34_Witness ==
    /\ nfPhase = "done"
    /\ Len(nfWorkers) = 2
    /\ \A w \in NodeWorkers : nfWorkers[w].ids # <<>>
    /\ \E i \in 1..Len(AllWays) : AllWays[i].road /\ Len(AllWays[i].refs) = 3
    /\ \E i \in 1..Len(AllWays) : ~AllWays[i].road /\ AllWays[i].refs[1] \notin RoadRefs
    /\ InputNodeIds \ RoadRefs # {}
    /\ nfNodes.len = 2

\* C35: in the per-worker node scan every worker pushes strictly ascending ids into
\* its own builder, whichever worker takes which blob, so the check of push never
\* fails.
C35_WorkerIdsAscend ==
    /\ nfPhase # "push panicked"
    /\ nfPhase \in {"nodes", "ways", "done", "lookup panicked"} =>
          \A w \in NodeWorkers :
              /\ ~nfWorkers[w].panicked
              /\ StrictlyAscending(nfWorkers[w].ids)
              /\ nfWorkers[w].ids # <<>> =>
                    nfWorkers[w].builder.last_id = nfWorkers[w].ids[Len(nfWorkers[w].ids)]

\* three blobs of one used node each: one worker pushed the first and the third,
\* the other worker the second
C35_Witness ==
    /\ nfPhase = "ways"
    /\ Len(nfFile.nodes_blobs) = 3
    /\ Len(nfWorkers) = 2
    /\ \E w \in NodeWorkers : nfWorkers[w].ids = <<-1, 1>>
    /\ \E w \in NodeWorkers : nfWorkers[w].ids = <<0>>

====
